---- MODULE Spec2Model ----
(***************************************************************************)
(* A model of src/main.py, the DeepLX translation load balancer:           *)
(*   URLStatus   (HealthState)  per-URL health records                     *)
(*   URLRotator  (PoolManager)  URL selection by score, pool replacement   *)
(*   RateLimiter                global and per-client sliding windows      *)
(*   translate_single           the dispatcher's retry loop                *)
(*   sse_translate              the streaming response generator           *)
(*                                                                         *)
(* Units.  Times are whole seconds.  Latencies are whole milliseconds and  *)
(* scores are the code's scores times 1000, so that the code's float      *)
(* arithmetic (1.0, 0.005, 0.05) becomes exact integer arithmetic          *)
(* (1000, 5, 50).  A quotient is kept as a pair [num, den].                *)
(*                                                                         *)
(* Strings.  A URL is a sequence of one-character strings, " " being       *)
(* whitespace, so that str.strip() is computed and not assumed.  A text is *)
(* a sequence of naturals, 0 being whitespace.                             *)
(***************************************************************************)
EXTENDS Integers, Sequences, FiniteSets, TLC

\* Python's None (an absent latency, last_success, client key, ...).
None == -1

(***************************************************************************)
(* Program constants.                                                      *)
(***************************************************************************)
\* MAX_REQUESTS_PER_MINUTE when the environment does not set it
DefaultMaxRequests == 60
\* RateLimiter.__init__: time_window = 60
TimeWindow == 60
\* RateLimiter.acquire: min(self.max_requests // 4, 30)
ClientDivisor == 4
ClientCap == 30
\* get_next_url: consecutive_failures > 5
MaxConsecutiveFailures == 5
\* get_next_url: status.get('latency', 1.0), in milliseconds
DefaultLatency == 1000
\* get_next_url: request_counts * 0.005, times 1000
LoadFactor == 5
\* get_next_url: max(0, 10 - (now - last_used)) * 0.05, times 1000
RecentWindow == 10
RecentFactor == 50
\* URLRotator.__init__: url_weights = 1.0
DefaultWeight == 1
\* translate_single: min(len(TRANSLATION_API_URLS), 5), else 3
RetryCap == 5
RetryIfNone == 3
\* translate_single: while url in tried_urls and retry_count < 3
MaxReselect == 3
\* sse_translate: chunk_size = 100
ChunkSize == 100

(***************************************************************************)
(* Bounds of the model.                                                    *)
(***************************************************************************)
\* The clock's value at start-up (time.time() is far above RecentWindow).
StartTime == 100
\* The number of clock ticks explored in the health specification.
MaxTicksHealth == 2
\* The number of HealthState updates of one URL in the health specification.
MaxChecksHealth == 3
\* The pool specification: the seconds of one clock tick, the number of
\* ticks, the number of HealthState updates and the selections of one URL.
PoolTickStep == 5
MaxTicksPool == 1
MaxChecksPool == 6
MaxRequestCount == 1
\* The rate limiter specification: the seconds of one clock tick and the
\* number of ticks.
RateTickStep == 30
MaxTicksRate == 2
MaxTicksCap == 1
MaxCalls == 2
MaxChecksProbe == 2
MaxCallsRetry == 1
RetryTickStep == 5
MaxTicksRetry == 1

\* periodic_url_check and check_and_export_urls
DefaultCheckInterval == 300
DefaultInitialDelay == 30
DefaultMaxWorkers == 5
ErrorDelay == 60
ShortIntervalCap == 120
max_consecutive_failures == 5

\* The value of MAX_TEXT_LENGTH in the environment.
MAX_TEXT_LENGTH == 200

\* Sweeps of the supervisor explored.
MaxSweeps == 2
\* The admission specification: the seconds between two requests and the
\* number of such pauses.
AdmitTickStep == 60
MaxTicksAdmit == 1
\* The sweeps of the interleaving specification.
MaxSweepsMutex == 1

(***************************************************************************)
(* Strings.                                                                *)
(***************************************************************************)
Range(s) == {s[i] : i \in 1..Len(s)}

Min(a, b) == IF a <= b THEN a ELSE b

Max(a, b) == IF a >= b THEN a ELSE b

RECURSIVE lstrip(_)
lstrip(s) == IF s # <<>> /\ Head(s) = " " THEN lstrip(Tail(s)) ELSE s

RECURSIVE rstrip(_)
rstrip(s) ==
    IF s # <<>> /\ s[Len(s)] = " " THEN rstrip(SubSeq(s, 1, Len(s) - 1)) ELSE s

\* str.strip()
strip(s) == rstrip(lstrip(s))

\* [url.strip() for url in urls if url.strip()]
RECURSIVE clean_urls(_)
clean_urls(raw) ==
    IF raw = <<>> THEN <<>>
    ELSE IF strip(Head(raw)) # <<>>
         THEN <<strip(Head(raw))>> \o clean_urls(Tail(raw))
         ELSE clean_urls(Tail(raw))

\* text.split(sep), sep one character
RECURSIVE split(_, _)
split(text, sep) ==
    IF \E k \in 1..Len(text) : text[k] = sep
    THEN LET k == CHOOSE i \in 1..Len(text) :
                     text[i] = sep /\ \A j \in 1..(i - 1) : text[j] # sep
         IN  <<SubSeq(text, 1, k - 1)>> \o split(SubSeq(text, k + 1, Len(text)), sep)
    ELSE <<text>>

\* sep.join(parts), sep one character
RECURSIVE join(_, _)
join(sep, parts) ==
    IF parts = <<>> THEN <<>>
    ELSE IF Len(parts) = 1 THEN Head(parts)
    ELSE Head(parts) \o <<sep>> \o join(sep, Tail(parts))

UrlA == <<"a">>
UrlB == <<"b">>
UrlC == <<"c">>
URLs == {UrlA, UrlB, UrlC}

(***************************************************************************)
(* State.                                                                  *)
(***************************************************************************)
VARIABLES
    now,            \* time.time()
    status_dict,    \* URLStatus.status_dict: url -> record
    urls,           \* URLRotator.urls
    request_counts, \* URLRotator.request_counts
    last_used,      \* URLRotator.last_used
    url_weights,    \* URLRotator.url_weights
    TRANSLATION_API_URLS, \* the module global read from the environment
    max_requests,   \* RateLimiter.max_requests (MAX_REQUESTS_PER_MINUTE)
    requests,       \* RateLimiter.requests
    client_requests,\* RateLimiter.client_requests
    accepted,       \* history: per client key, the time of each request accepted
    ret,            \* the last completed call: what it was and what it returned
    call,           \* the frame of the translate_single call in progress
    sse,            \* the frame of the sse_translate generator and its output
    http,           \* the chat_completions request in progress and its answer
    environ,        \* os.environ: the settings read while the service runs
    sweep,          \* URLStatus.session_pool and the frame of the sweep in progress
    supervisor      \* the frame of the periodic_url_check task

vars == <<now, status_dict, urls, request_counts, last_used, url_weights,
          TRANSLATION_API_URLS, max_requests, requests, client_requests,
          accepted, ret, call, sse, http, environ, sweep, supervisor>>

pool_vars == <<urls, request_counts, last_used, url_weights>>

rate_vars == <<max_requests, requests, client_requests, accepted>>

\* What start-up fixes: the configuration.
config_vars == <<TRANSLATION_API_URLS>>

\* The request in progress.
request_vars == <<call, sse, http>>

\* The background check of the URLs.
check_vars == <<environ, sweep, supervisor>>

\* ret: op is the call, arg its URL or client key, val its outcome, bit the
\* parity of the number of calls made.
Ret(op, arg, val) == [op |-> op, arg |-> arg, val |-> val, bit |-> 1 - ret.bit]

(***************************************************************************)
(* URLStatus.update_status                                                 *)
(***************************************************************************)
\* self.status_dict.get(url, {}).get(key, default)
StatusGet(sd, url, key, default) ==
    IF url \in DOMAIN sd THEN sd[url][key] ELSE default

\* max(0, (total - failures) / total), as a quotient
SuccessRate(total, failures) ==
    [num |-> Max(0, total - failures), den |-> total]

\* update_status with total_checks counting the successes only.
NewStatus_SuccessesOnly(sd, url, status, latency, response_length, current_time) ==
    LET failures == IF status THEN 0
                    ELSE StatusGet(sd, url, "consecutive_failures", 0) + 1
        total == StatusGet(sd, url, "total_checks", 0) + (IF status THEN 1 ELSE 0)
    IN  [available |-> status,
         latency |-> latency,
         response_length |-> response_length,
         last_check |-> current_time,
         last_success |-> IF status THEN current_time
                          ELSE StatusGet(sd, url, "last_success", None),
         consecutive_failures |-> failures,
         total_checks |-> total,
         success_rate |-> IF total > 0 THEN SuccessRate(total, failures)
                          ELSE [num |-> None, den |-> None]]

\* update_status with a failure forgetting the last success.
NewStatus_ForgetSuccess(sd, url, status, latency, response_length, current_time) ==
    LET failures == IF status THEN 0
                    ELSE StatusGet(sd, url, "consecutive_failures", 0) + 1
        total == StatusGet(sd, url, "total_checks", 0) + 1
    IN  [available |-> status,
         latency |-> latency,
         response_length |-> response_length,
         last_check |-> current_time,
         last_success |-> IF status THEN current_time ELSE None,
         consecutive_failures |-> failures,
         total_checks |-> total,
         success_rate |-> IF total > 0 THEN SuccessRate(total, failures)
                          ELSE [num |-> None, den |-> None]]

\* An update that writes the record from a copy of the map taken before
\* the earlier updates of the URL: those are lost.
NewStatus_Lost(sd, url, status, latency, response_length, current_time) ==
    [available |-> status,
     latency |-> latency,
     response_length |-> response_length,
     last_check |-> current_time,
     last_success |-> IF status THEN current_time ELSE None,
     consecutive_failures |-> IF status THEN 0 ELSE 1,
     total_checks |-> 1,
     success_rate |-> SuccessRate(1, IF status THEN 0 ELSE 1)]

\* The record update_status stores for url.
NewStatus(sd, url, status, latency, response_length, current_time) ==
    LET failures == IF status THEN 0
                    ELSE StatusGet(sd, url, "consecutive_failures", 0) + 1
        total == StatusGet(sd, url, "total_checks", 0) + 1
    IN  [available |-> status,
         latency |-> latency,
         response_length |-> response_length,
         last_check |-> current_time,
         last_success |-> IF status THEN current_time
                          ELSE StatusGet(sd, url, "last_success", None),
         consecutive_failures |-> failures,
         total_checks |-> total,
         success_rate |-> IF total > 0 THEN SuccessRate(total, failures)
                          ELSE [num |-> None, den |-> None]]

\* status_dict after update_status(url, status, latency, response_length)
update_status(sd, url, status, latency, response_length, current_time) ==
    [u \in DOMAIN sd \cup {url} |->
        IF u = url
        THEN NewStatus(sd, url, status, latency, response_length, current_time)
        ELSE sd[u]]

(***************************************************************************)
(* Start-up: module level code and URLRotator.__init__.                    *)
(***************************************************************************)
\* [url for url in TRANSLATION_API_URLS if url]
RECURSIVE non_empty(_)
non_empty(raw) ==
    IF raw = <<>> THEN <<>>
    ELSE IF Head(raw) # <<>> THEN <<Head(raw)>> \o non_empty(Tail(raw))
         ELSE non_empty(Tail(raw))

\* Client keys (request.state.client_ip); the empty key is a call of acquire
\* without a client.
ClientX == <<"x">>
ClientY == <<"y">>
NoClient == <<>>
ClientKeys == {ClientX, ClientY, NoClient}

\* The values of MAX_REQUESTS_PER_MINUTE explored: none, less than four, a
\* multiple of four and not, and one whose quarter is above 30.
RateLimits == {0, 2, 4, 6, 9, 124}

\* The values of the environment variable TRANSLATION_API_URLS explored,
\* split at ",": one, two and three URLs, a blank entry, a repeated URL.
EnvConfigs ==
    { <<UrlA>>, <<UrlA, UrlB>>, <<UrlA, UrlB, UrlC>>,
      <<UrlA, <<" ">>, UrlB>>, <<UrlA, UrlA>> }

\* No translate_single call has been made yet: the locals are unset.
\* id counts the calls made; posts and sleeps are the history of the call:
\* the URL of each POST and the length of each backoff sleep; pool_at_start
\* and unavailable_at_start are the pool when the call entered its loop and
\* the URLs of that pool that were marked unavailable then; response is
\* what the upstream did with the last POST.
NoCall ==
    [id |-> 0, pc |-> "idle", text |-> <<>>, source_lang |-> "",
     target_lang |-> "", max_retries |-> 0, attempt |-> 0, tried_urls |-> {},
     url |-> <<>>, retry_count |-> 0, last_error |-> "None", result |-> <<>>,
     raised |-> "None", posts |-> <<>>, sleeps |-> <<>>,
     pool_at_start |-> <<>>, unavailable_at_start |-> {},
     response |-> [kind |-> "none", data |-> <<>>]]

\* No streaming response has been started.  frames is what the generator
\* has yielded, caught the except clause it has entered.
NoStream ==
    [pc |-> "idle", text |-> <<>>, source_lang |-> "", target_lang |-> "",
     translated_text |-> <<>>, i |-> 0, caught |-> "None", frames |-> <<>>]

\* No chat_completions request has been made.  stream, accept and
\* enable_streaming are the stream field, the Accept header and the value of
\* ENABLE_STREAMING of the request.
NoHttp ==
    [pc |-> "idle", status |-> 0, mode |-> "none", stream |-> FALSE,
     accept |-> <<>>, enable_streaming |-> <<>>, detail |-> <<>>,
     content |-> <<>>, prompt_tokens |-> 0, completion_tokens |-> 0]

\* No sweep has been made and no session created.  id counts the sweeps;
\* urls is the list probed; task is the state of the task of each entry
\* ("pending": waiting for the semaphore, "posting": holding it with the POST
\* in flight, "done", "raised", "cancelled"); finished is the queue of
\* as_completed: the tasks that ended, not yet collected; value is the
\* result each task returned; results is the list collected; posts and
\* updates are history: the POSTs and the HealthState updates made for each
\* entry; error, cancels, status, available_urls and updated_urls are what
\* the sweep ended with.
NoSweep ==
    [pc |-> "idle", id |-> 0, session_pool |-> FALSE, urls |-> <<>>,
     task |-> <<>>, finished |-> <<>>, value |-> <<>>, results |-> <<>>,
     posts |-> <<>>, updates |-> <<>>, error |-> "None", status |-> 0,
     returned |-> <<>>, updated_urls |-> FALSE]

\* The task of periodic_url_check as lifespan creates it: in its initial
\* delay.  cancel: check_task.cancel() was called and CancelledError is not
\* yet raised in the task; sleeps, cancel_called and after_cancel are
\* history: the length of each sleep started, whether cancel() was ever
\* called, and the sleeps started since then.
NewSupervisor ==
    [pc |-> "initial_delay", consecutive_failures |-> 0, cancel |-> FALSE,
     sleeps |-> <<DefaultInitialDelay>>, cancel_called |-> FALSE,
     after_cancel |-> 0]

\* os.environ with the settings at their defaults.
DefaultSettings ==
    [AUTO_UPDATE_URLS |-> <<"t", "r", "u", "e">>,
     MIN_AVAILABLE_URLS |-> <<"2">>,
     CHECK_INTERVAL |-> DefaultCheckInterval,
     MAX_WORKERS |-> DefaultMaxWorkers]

\* The state after the module is loaded with env as TRANSLATION_API_URLS.
\* (An env with no URL raises ValueError and the program does not start.)
InitEnv(env, limit, settings) ==
    /\ clean_urls(non_empty(env)) # <<>>
    /\ environ = [TRANSLATION_API_URLS |-> join(",", env),
                  AUTO_UPDATE_URLS |-> settings.AUTO_UPDATE_URLS,
                  MIN_AVAILABLE_URLS |-> settings.MIN_AVAILABLE_URLS,
                  CHECK_INTERVAL |-> settings.CHECK_INTERVAL,
                  MAX_WORKERS |-> settings.MAX_WORKERS]
    /\ sweep = NoSweep
    /\ supervisor = NewSupervisor
    /\ TRANSLATION_API_URLS = non_empty(env)
    /\ urls = clean_urls(non_empty(env))
    /\ request_counts = [u \in Range(urls) |-> 0]
    /\ last_used = [u \in Range(urls) |-> 0]
    /\ url_weights = [u \in Range(urls) |-> DefaultWeight]
    /\ status_dict = <<>>
    /\ max_requests = limit
    /\ requests = <<>>
    /\ client_requests = <<>>
    /\ accepted = [k \in ClientKeys |-> <<>>]
    /\ now = StartTime
    /\ ret = [op |-> "init", arg |-> <<>>, val |-> "", bit |-> 0]
    /\ call = NoCall
    /\ sse = NoStream
    /\ http = NoHttp

InitWith(env, limit) == InitEnv(env, limit, DefaultSettings)

Init == \E env \in EnvConfigs, limit \in RateLimits : InitWith(env, limit)

(***************************************************************************)
(* The clock.                                                              *)
(***************************************************************************)
Tick(d, limit) ==
    /\ now + d <= limit
    /\ now' = now + d
    /\ UNCHANGED <<status_dict, pool_vars, config_vars, rate_vars, request_vars, check_vars, ret>>

(***************************************************************************)
(* HealthState on its own: updates by probes (check_url) and by dispatch   *)
(* attempts (translate_single), in any order.                              *)
(***************************************************************************)
\* Measured latencies (ms) and body lengths of a successful call.
Latencies == {995, 1000, 2500}
Lengths == {2}

\* One call of update_status, as check_url and translate_single make it:
\* with a latency and a length on success, with neither on failure.
UpdateStatus(url, status, latency, response_length) ==
    /\ status_dict' =
          update_status(status_dict, url, status, latency, response_length, now)
    /\ UNCHANGED <<now, pool_vars, config_vars, rate_vars, request_vars, check_vars>>

UpdateSuccess(url) ==
    \E l \in Latencies, n \in Lengths : UpdateStatus(url, TRUE, l, n)

UpdateFailure(url) == UpdateStatus(url, FALSE, None, None)

\* The call as the health specification logs it in ret.
LogUpdate(url, status) ==
    ret' = Ret("update_status", url, IF status THEN "True" ELSE "False")

HealthURLs == {UrlA, UrlB}

HealthBound(url) ==
    StatusGet(status_dict, url, "total_checks", 0) < MaxChecksHealth

HealthTick == Tick(1, StartTime + MaxTicksHealth)

NextHealth ==
    \/ \E url \in HealthURLs :
          HealthBound(url) /\ UpdateSuccess(url) /\ LogUpdate(url, TRUE)
    \/ \E url \in HealthURLs :
          HealthBound(url) /\ UpdateFailure(url) /\ LogUpdate(url, FALSE)
    \/ HealthTick

SpecHealth == InitWith(<<UrlA, UrlB>>, DefaultMaxRequests) /\ [][NextHealth]_vars

(***************************************************************************)
(* Claims about HealthState.                                               *)
(***************************************************************************)
\* C1: after any sequence of updates, every recorded URL has
\* total_checks >= consecutive_failures, a success_rate equal to
\* max(0, (total_checks - consecutive_failures) / total_checks) that lies in
\* [0, 1], and last_success <= last_check when last_success is set.
C1_HealthInvariant ==
    \A u \in DOMAIN status_dict :
        LET r == status_dict[u]
        IN  /\ r.total_checks >= r.consecutive_failures
            /\ r.success_rate.den = r.total_checks
            /\ r.success_rate.num =
                  Max(0, r.total_checks - r.consecutive_failures)
            /\ r.success_rate.den > 0
            /\ 0 <= r.success_rate.num
            /\ r.success_rate.num <= r.success_rate.den
            /\ r.last_check # None
            /\ (r.last_success # None => r.last_success <= r.last_check)

\* A URL that succeeded, and later failed twice at a later time.
C1_Witness ==
    \E u \in DOMAIN status_dict :
        /\ status_dict[u].consecutive_failures = 2
        /\ status_dict[u].total_checks = 3
        /\ status_dict[u].last_success # None
        /\ status_dict[u].last_success < status_dict[u].last_check

\* C2: update(url, success) sets consecutive_failures to 0 and last_success
\* to now; update(url, failure) adds exactly 1 to consecutive_failures and
\* keeps last_success; both add exactly 1 to total_checks and leave the
\* record of every other URL as it was.
C2_UpdateEffect ==
    [][ (ret'.op = "update_status" /\ ret'.bit # ret.bit) =>
          LET url == ret'.arg
              new == status_dict'[url]
          IN  /\ url \in DOMAIN status_dict'
              /\ new.total_checks =
                    StatusGet(status_dict, url, "total_checks", 0) + 1
              /\ ret'.val = "True" =>
                    /\ new.consecutive_failures = 0
                    /\ new.last_success = now
              /\ ret'.val = "False" =>
                    /\ new.consecutive_failures =
                          StatusGet(status_dict, url, "consecutive_failures", 0) + 1
                    /\ new.last_success =
                          StatusGet(status_dict, url, "last_success", None)
              /\ DOMAIN status_dict' = DOMAIN status_dict \cup {url}
              /\ \A u \in DOMAIN status_dict :
                    u # url => status_dict'[u] = status_dict[u] ]_vars

\* A failure recorded after a success, beside another URL's record.
C2_Witness ==
    /\ ret.op = "update_status" /\ ret.val = "False"
    /\ ret.arg \in DOMAIN status_dict
    /\ status_dict[ret.arg].consecutive_failures = 1
    /\ status_dict[ret.arg].last_success # None
    /\ DOMAIN status_dict # {ret.arg}

(***************************************************************************)
(* URLRotator.get_next_url                                                 *)
(***************************************************************************)
\* dict.get(key, default)
DictGet(d, key, default) == IF key \in DOMAIN d THEN d[key] ELSE default

\* d[key] = value
DictSet(d, key, value) ==
    [k \in DOMAIN d \cup {key} |-> IF k = key THEN value ELSE d[k]]

\* A loop that scores the unavailable URLs too.
IsScored_Unavailable(sd, url) ==
    ~(StatusGet(sd, url, "consecutive_failures", 0) > MaxConsecutiveFailures)

\* The URLs the loop scores: not more than 5 consecutive failures, and
\* available (a URL without a record counts as available).
IsScored(sd, url) ==
    /\ ~(StatusGet(sd, url, "consecutive_failures", 0) > MaxConsecutiveFailures)
    /\ StatusGet(sd, url, "available", TRUE)

\* (base_latency + request_load + recent_usage) / (success_rate * weight),
\* times 1000, as a quotient.
Score(sd, rc, lu, w, url, t) ==
    LET base_latency == StatusGet(sd, url, "latency", DefaultLatency)
        request_load == DictGet(rc, url, 0) * LoadFactor
        recent_usage ==
            Max(0, RecentWindow - (t - DictGet(lu, url, 0))) * RecentFactor
        success_rate == StatusGet(sd, url, "success_rate", [num |-> 1, den |-> 1])
        weight == DictGet(w, url, DefaultWeight)
    IN  [num |-> (base_latency + request_load + recent_usage) * success_rate.den,
         den |-> success_rate.num * weight]

\* Python raises in the score expression: None + float (TypeError), or a
\* division by zero (ZeroDivisionError).
ScoreRaises(sd, w, url) ==
    \/ StatusGet(sd, url, "latency", DefaultLatency) = None
    \/ StatusGet(sd, url, "success_rate", [num |-> 1, den |-> 1]).num = None
    \/ StatusGet(sd, url, "success_rate", [num |-> 1, den |-> 1]).num
          * DictGet(w, url, DefaultWeight) = 0

\* a < b for two scores with positive denominators
ScoreLess(a, b) == a.num * b.den < b.num * a.den

\* scored_urls: the (url, score) pairs in the order of self.urls
RECURSIVE scored_urls(_, _, _, _, _, _)
scored_urls(us, sd, rc, lu, w, t) ==
    IF us = <<>> THEN <<>>
    ELSE IF IsScored(sd, Head(us))
         THEN <<[url |-> Head(us), score |-> Score(sd, rc, lu, w, Head(us), t)]>>
              \o scored_urls(Tail(us), sd, rc, lu, w, t)
         ELSE scored_urls(Tail(us), sd, rc, lu, w, t)

\* A sort that is not stable: x put before the pairs equal to it.
RECURSIVE insert_sorted_BeforeEqual(_, _)
insert_sorted_BeforeEqual(x, sorted) ==
    IF sorted = <<>> THEN <<x>>
    ELSE IF ~ScoreLess(Head(sorted).score, x.score) THEN <<x>> \o sorted
         ELSE <<Head(sorted)>> \o insert_sorted_BeforeEqual(x, Tail(sorted))

\* x put into the sorted list after every pair that is not greater than it.
RECURSIVE insert_sorted(_, _)
insert_sorted(x, sorted) ==
    IF sorted = <<>> THEN <<x>>
    ELSE IF ScoreLess(x.score, Head(sorted).score) THEN <<x>> \o sorted
         ELSE <<Head(sorted)>> \o insert_sorted(x, Tail(sorted))

\* list.sort(key=score): a stable sort.
RECURSIVE sort_by_score(_)
sort_by_score(pairs) ==
    IF pairs = <<>> THEN <<>>
    ELSE insert_sorted(pairs[Len(pairs)],
                       sort_by_score(SubSeq(pairs, 1, Len(pairs) - 1)))

\* A selection that takes the random choice whatever was scored.
NextUrlOutcomes_AlwaysFallback ==
    IF urls # <<>>
    THEN {[val |-> "fallback", url |-> urls[i]] : i \in 1..Len(urls)}
    ELSE {[val |-> "503", url |-> <<>>]}

\* A selection that falls back as soon as one URL of the pool is filtered.
NextUrlOutcomes_FallbackIfFiltered ==
    LET scored == scored_urls(urls, status_dict, request_counts, last_used,
                              url_weights, now)
    IN  IF \E i \in 1..Len(urls) :
              /\ IsScored(status_dict, urls[i])
              /\ ScoreRaises(status_dict, url_weights, urls[i])
        THEN {[val |-> "exception", url |-> <<>>]}
        ELSE IF Len(scored) < Len(urls)
        THEN {[val |-> "fallback", url |-> urls[i]] : i \in 1..Len(urls)}
        ELSE IF urls = <<>>
        THEN {[val |-> "503", url |-> <<>>]}
        ELSE {[val |-> "scored", url |-> sort_by_score(scored)[1].url]}

\* What get_next_url can return in the current state: the best scored URL,
\* any URL of the pool when none is scored (random.choice), HTTP 503 when
\* the pool is empty, or the exception the score expression raises.
NextUrlOutcomes ==
    LET scored == scored_urls(urls, status_dict, request_counts, last_used,
                              url_weights, now)
    IN  IF \E i \in 1..Len(urls) :
              /\ IsScored(status_dict, urls[i])
              /\ ScoreRaises(status_dict, url_weights, urls[i])
        THEN {[val |-> "exception", url |-> <<>>]}
        ELSE IF scored = <<>>
        THEN IF urls # <<>>
             THEN {[val |-> "fallback", url |-> urls[i]] : i \in 1..Len(urls)}
             ELSE {[val |-> "503", url |-> <<>>]}
        ELSE {[val |-> "scored", url |-> sort_by_score(scored)[1].url]}

\* A selection that tracks only the URLs it scored.
get_next_url_FallbackUntracked(o) ==
    /\ o \in NextUrlOutcomes
    /\ IF o.val = "scored"
       THEN /\ request_counts' =
                 DictSet(request_counts, o.url, DictGet(request_counts, o.url, 0) + 1)
            /\ last_used' = DictSet(last_used, o.url, now)
       ELSE UNCHANGED <<request_counts, last_used>>
    /\ UNCHANGED <<urls, url_weights>>

\* get_next_url returning outcome o: the tracking update of the selected URL.
get_next_url(o) ==
    /\ o \in NextUrlOutcomes
    /\ IF o.val \in {"scored", "fallback"}
       THEN /\ request_counts' =
                 DictSet(request_counts, o.url, DictGet(request_counts, o.url, 0) + 1)
            /\ last_used' = DictSet(last_used, o.url, now)
       ELSE UNCHANGED <<request_counts, last_used>>
    /\ UNCHANGED <<urls, url_weights>>

(***************************************************************************)
(* URLRotator.update_urls                                                  *)
(***************************************************************************)
\* A replacement that starts every URL afresh.
Carry_Reset(old, new_urls, default) == [u \in Range(new_urls) |-> default]

\* {url: old.get(url, default) for url in new_urls}
Carry(old, new_urls, default) ==
    [u \in Range(new_urls) |-> DictGet(old, u, default)]

\* A replacement that takes the empty list too.
update_urls_AcceptEmpty(new_urls) ==
    LET cleaned == clean_urls(new_urls)
    IN  /\ urls' = cleaned
        /\ request_counts' = Carry(request_counts, cleaned, 0)
        /\ last_used' = Carry(last_used, cleaned, 0)
        /\ url_weights' = Carry(url_weights, cleaned, DefaultWeight)

update_urls(new_urls) ==
    LET cleaned == clean_urls(new_urls)
    IN  IF cleaned = <<>>
        THEN UNCHANGED pool_vars
        ELSE /\ urls' = cleaned
             /\ request_counts' = Carry(request_counts, cleaned, 0)
             /\ last_used' = Carry(last_used, cleaned, 0)
             /\ url_weights' = Carry(url_weights, cleaned, DefaultWeight)

(***************************************************************************)
(* The pool manager's selection with its callers left open: selections,    *)
(* HealthState updates and pool replacements in any order.                 *)
(***************************************************************************)
PoolLatencies == {995, 1000}

\* The lists given to update_urls here: a reordered pool, a pool with a URL
\* that has no record, a pool of one.
PoolNewUrls == {<<UrlB, UrlA>>, <<UrlC, UrlA, UrlB>>, <<UrlB>>}

PoolGetNextUrl ==
    \E o \in NextUrlOutcomes :
        /\ DictGet(request_counts, o.url, 0) < MaxRequestCount
        /\ get_next_url(o)
        /\ UNCHANGED <<now, status_dict, config_vars, rate_vars, request_vars, check_vars, ret>>

PoolUpdateUrls ==
    \E new_urls \in PoolNewUrls :
        /\ update_urls(new_urls)
        /\ UNCHANGED <<now, status_dict, config_vars, rate_vars, request_vars, check_vars, ret>>

RECURSIVE SumChecks(_)
SumChecks(S) ==
    IF S = {} THEN 0
    ELSE LET u == CHOOSE x \in S : TRUE
         IN  status_dict[u].total_checks + SumChecks(S \ {u})

\* HealthState updates are taken before the first tick: get_next_url reads
\* no timestamp of a record (SpecHealth covers the timestamps).
PoolBound ==
    /\ now = StartTime
    /\ SumChecks(DOMAIN status_dict) < MaxChecksPool

PoolUpdateSuccess(url) ==
    /\ PoolBound
    /\ \E l \in PoolLatencies, n \in Lengths : UpdateStatus(url, TRUE, l, n)
    /\ UNCHANGED ret

PoolUpdateFailure(url) ==
    /\ PoolBound
    /\ UpdateFailure(url)
    /\ UNCHANGED ret

PoolTick == Tick(PoolTickStep, StartTime + MaxTicksPool * PoolTickStep)

NextPool ==
    \/ PoolGetNextUrl
    \/ PoolUpdateUrls
    \/ \E url \in HealthURLs : PoolUpdateSuccess(url)
    \/ \E url \in HealthURLs : PoolUpdateFailure(url)
    \/ PoolTick

SpecPool == InitWith(<<UrlA, UrlB>>, DefaultMaxRequests) /\ [][NextPool]_vars

(***************************************************************************)
(* Claims about selection.                                                 *)
(***************************************************************************)
\* A step of get_next_url that returns url: it counts one more request of it.
Selects(url) ==
    /\ urls' = urls
    /\ url \in DOMAIN request_counts'
    /\ request_counts'[url] = DictGet(request_counts, url, 0) + 1

\* url passes the filter of step 2 and 3: at most 5 consecutive failures and
\* not marked unavailable.
Survives(url) ==
    \/ url \notin DOMAIN status_dict
    \/ /\ status_dict[url].consecutive_failures <= 5
       /\ status_dict[url].available

\* C3: get_next_url never returns a URL with consecutive_failures > 5,
\* unless no URL of the pool survives filtering; then it returns a URL of the
\* pool, and each URL of the pool can be the one returned.
C3_NoFailedUrl ==
    /\ [][ \A url \in URLs :
             Selects(url) =>
               /\ url \in Range(urls)
               /\ StatusGet(status_dict, url, "consecutive_failures", 0) > 5
                    => \A u \in Range(urls) : ~Survives(u) ]_vars
    /\ []( (urls # <<>> /\ \A u \in Range(urls) : ~Survives(u)) =>
             {o.url : o \in NextUrlOutcomes} = Range(urls) )

\* A URL was selected just now while another URL of the pool has more than 5
\* consecutive failures.
C3_Witness ==
    \E u, v \in Range(urls) :
        /\ StatusGet(status_dict, v, "consecutive_failures", 0) > 5
        /\ Survives(u)
        /\ request_counts[u] > 0 /\ last_used[u] = now
        /\ request_counts[v] = 0
        /\ status_dict[v].last_check < last_used[u]

\* The score of the claim, times 1000, over success_rate * weight:
\* latency + 0.005 * request_count + 0.05 * max(0, 10 - (now - last_used)),
\* with latency 1.0, success_rate 1.0 and weight 1.0 for missing values.
C4_Numerator(url) ==
    (IF url \in DOMAIN status_dict THEN status_dict[url].latency ELSE 1000)
    + 5 * (IF url \in DOMAIN request_counts THEN request_counts[url] ELSE 0)
    + 50 * (LET idle == now - (IF url \in DOMAIN last_used THEN last_used[url] ELSE 0)
            IN  IF 10 - idle > 0 THEN 10 - idle ELSE 0)

C4_Denominator(url) ==
    LET rate == IF url \in DOMAIN status_dict THEN status_dict[url].success_rate
                ELSE [num |-> 1, den |-> 1]
        weight == IF url \in DOMAIN url_weights THEN url_weights[url] ELSE 1
    IN  [num |-> rate.num * weight, den |-> rate.den]

\* score(u) < score(v), both denominators being positive
C4_Lower(u, v) ==
    C4_Numerator(u) * C4_Denominator(u).den * C4_Denominator(v).num
      < C4_Numerator(v) * C4_Denominator(v).den * C4_Denominator(u).num

\* C4: when a candidate survives filtering, get_next_url returns the
\* surviving candidate of lowest score, and among those of equal score the
\* earliest of the pool's list.
C4_LowestScore ==
    [][ \A url \in URLs :
          (Selects(url) /\ \E u \in Range(urls) : Survives(u)) =>
             \E i \in 1..Len(urls) :
                /\ urls[i] = url
                /\ Survives(url)
                /\ C4_Denominator(url).num > 0
                /\ \A j \in 1..Len(urls) :
                      Survives(urls[j]) =>
                        /\ ~C4_Lower(urls[j], url)
                        /\ j < i => C4_Lower(url, urls[j]) ]_vars

\* The second URL of the pool was selected just now, the first one being a
\* candidate too (so its score is higher), both having a record.
C4_Witness ==
    /\ Len(urls) >= 2
    /\ Survives(urls[1]) /\ Survives(urls[2])
    /\ urls[1] \in DOMAIN status_dict /\ urls[2] \in DOMAIN status_dict
    /\ request_counts[urls[2]] = 1 /\ last_used[urls[2]] = now
    /\ request_counts[urls[1]] = 1 /\ last_used[urls[1]] < now
    /\ status_dict[urls[1]].last_check < now
    /\ status_dict[urls[2]].last_check < now

(***************************************************************************)
(* The pool manager's replacement with its callers left open: pool         *)
(* replacements and selections in any order, from every start-up           *)
(* configuration.                                                          *)
(***************************************************************************)
\* The strings a list given to update_urls is made of.
RawURLs == {UrlA, UrlB, UrlC, <<" ", "a">>, <<" ">>, <<>>}

SeqsUpTo(S, n) == UNION {[1..k -> S] : k \in 0..n}

\* The lists given to update_urls: every list of at most two strings, and
\* lists of three with a blank entry and with a repeated URL.
ReplaceNewUrls ==
    SeqsUpTo(RawURLs, 2)
      \cup {<<UrlC, <<" ">>, UrlB>>, <<UrlB, UrlC, UrlB>>}

ReplaceGetNextUrl ==
    \E o \in NextUrlOutcomes :
        /\ DictGet(request_counts, o.url, 0) < MaxRequestCount
        /\ get_next_url(o)
        /\ UNCHANGED <<now, status_dict, config_vars, rate_vars, request_vars, check_vars, ret>>

ReplaceUpdateUrls ==
    \E new_urls \in ReplaceNewUrls :
        /\ update_urls(new_urls)
        /\ ret' = Ret("update_urls", <<>>,
                      IF clean_urls(new_urls) = <<>> THEN "ignored" ELSE "updated")
        /\ UNCHANGED <<now, status_dict, config_vars, rate_vars, request_vars, check_vars>>

NextReplace ==
    \/ ReplaceGetNextUrl
    \/ ReplaceUpdateUrls
    \/ PoolTick

SpecReplace ==
    /\ \E env \in EnvConfigs : InitWith(env, DefaultMaxRequests)
    /\ [][NextReplace]_vars

\* C5: update_urls with a list that is not empty after cleaning keeps
\* request_count, last_used and weight of every URL of the pool before that
\* is in the pool after, gives 0, 0 and 1.0 to every URL that is new, and
\* keeps no entry of any other URL.
C5_ReplaceKeepsStatistics ==
    [][ (ret'.op = "update_urls" /\ ret'.bit # ret.bit /\ ret'.val = "updated") =>
          /\ DOMAIN request_counts' = Range(urls')
          /\ DOMAIN last_used' = Range(urls')
          /\ DOMAIN url_weights' = Range(urls')
          /\ \A u \in Range(urls') :
                IF u \in Range(urls)
                THEN /\ request_counts'[u] = request_counts[u]
                     /\ last_used'[u] = last_used[u]
                     /\ url_weights'[u] = url_weights[u]
                ELSE /\ request_counts'[u] = 0
                     /\ last_used'[u] = 0
                     /\ url_weights'[u] = 1 ]_vars

\* A replacement just made, to a pool of a URL that was used before and a
\* new one, the first configured URL being dropped.
C5_Witness ==
    /\ ret.op = "update_urls" /\ ret.val = "updated"
    /\ UrlA \notin Range(urls)
    /\ \E u, v \in Range(urls) :
          /\ request_counts[u] > 0 /\ last_used[u] > 0 /\ last_used[u] < now
          /\ request_counts[v] = 0 /\ last_used[v] = 0

(***************************************************************************)
(* RateLimiter.acquire                                                     *)
(***************************************************************************)
\* A window that is never purged.
purge_Never(window, t) == window

\* [req_time for req_time in window if now - req_time < self.time_window]
purge(window, t) == SelectSeq(window, LAMBDA req_time : t - req_time < TimeWindow)

\* len(self.requests) >= self.max_requests
IsFull(window, limit) == Len(window) >= limit

\* A client limit without the cap of 30.
client_limit_NoCap(limit) == limit \div ClientDivisor

\* min(self.max_requests // 4, 30)
client_limit(limit) == Min(limit \div ClientDivisor, ClientCap)

\* An admission that checks the client's window before the global one.
acquire_ClientFirst(client_ip) ==
    LET global == purge(requests, now)
        mine == purge(DictGet(client_requests, client_ip, <<>>), now)
    IN  IF client_ip # NoClient /\ IsFull(mine, client_limit(max_requests))
        THEN /\ client_requests' = DictSet(client_requests, client_ip, mine)
             /\ UNCHANGED <<requests, accepted>>
             /\ ret' = Ret("acquire", client_ip, "429 Client rate limit exceeded")
        ELSE IF IsFull(global, max_requests)
        THEN /\ requests' = global
             /\ UNCHANGED <<client_requests, accepted>>
             /\ ret' = Ret("acquire", client_ip, "429 Global rate limit exceeded")
        ELSE /\ requests' = Append(global, now)
             /\ client_requests' =
                   IF client_ip # NoClient
                   THEN DictSet(client_requests, client_ip, Append(mine, now))
                   ELSE client_requests
             /\ accepted' = [accepted EXCEPT ![client_ip] = Append(@, now)]
             /\ ret' = Ret("acquire", client_ip, "True")

\* acquire(client_ip): the purged global window is stored before the global
\* check, the purged client window (created on first use) before the client
\* check; an accepted request is appended to both.
acquire(client_ip) ==
    LET global == purge(requests, now)
        mine == purge(DictGet(client_requests, client_ip, <<>>), now)
    IN  IF IsFull(global, max_requests)
        THEN /\ requests' = global
             /\ UNCHANGED <<client_requests, accepted>>
             /\ ret' = Ret("acquire", client_ip, "429 Global rate limit exceeded")
        ELSE IF client_ip # NoClient
        THEN IF IsFull(mine, client_limit(max_requests))
             THEN /\ requests' = global
                  /\ client_requests' = DictSet(client_requests, client_ip, mine)
                  /\ UNCHANGED accepted
                  /\ ret' = Ret("acquire", client_ip,
                                "429 Client rate limit exceeded")
             ELSE /\ requests' = Append(global, now)
                  /\ client_requests' =
                        DictSet(client_requests, client_ip, Append(mine, now))
                  /\ accepted' =
                        [accepted EXCEPT ![client_ip] = Append(@, now)]
                  /\ ret' = Ret("acquire", client_ip, "True")
        ELSE /\ requests' = Append(global, now)
             /\ accepted' = [accepted EXCEPT ![client_ip] = Append(@, now)]
             /\ UNCHANGED client_requests
             /\ ret' = Ret("acquire", client_ip, "True")

(***************************************************************************)
(* The rate limiter with its callers left open: requests of two clients    *)
(* and requests without a client key, under every limit of RateLimits.     *)
(* Under a limit whose quarter is above 1 fewer callers send requests:     *)
(* one client and the caller without a key, and one client alone where    *)
(* the quarter is above 30.                                                *)
(***************************************************************************)
RateKeys ==
    IF max_requests \div ClientDivisor > ClientCap THEN {ClientX}
    ELSE IF max_requests \div ClientDivisor > 1 THEN {ClientX, NoClient}
    ELSE ClientKeys

RateAcquire ==
    \E client_ip \in RateKeys :
        /\ acquire(client_ip)
        /\ UNCHANGED <<now, status_dict, pool_vars, config_vars, max_requests, request_vars, check_vars>>

\* Time passes in steps of RateTickStep seconds; a limiter whose client
\* limit is the cap is followed over fewer steps.
RateTicks ==
    IF max_requests \div ClientDivisor > ClientCap THEN MaxTicksCap ELSE MaxTicksRate

RateTick == Tick(RateTickStep, StartTime + RateTicks * RateTickStep)

NextRate ==
    \/ RateAcquire
    \/ RateTick

SpecRate ==
    /\ \E limit \in RateLimits : InitWith(<<UrlA>>, limit)
    /\ [][NextRate]_vars

(***************************************************************************)
(* Claims about the rate limiter.                                          *)
(***************************************************************************)
\* The number of timestamps of window that lie in the 60 seconds ending at t.
InWindow(window, t) ==
    Cardinality({i \in 1..Len(window) : window[i] <= t /\ t - window[i] < 60})

\* A step of acquire for client key k.
Acquires(k) == ret'.op = "acquire" /\ ret'.bit # ret.bit /\ ret'.arg = k

Accepted == ret'.val = "True"

\* The times a window can end at: now, and the time of any accepted request.
WindowEnds == {now} \cup UNION {Range(accepted[k]) : k \in ClientKeys}

RECURSIVE SumInWindow(_, _)
SumInWindow(K, t) ==
    IF K = {} THEN 0
    ELSE LET k == CHOOSE x \in K : TRUE
         IN  InWindow(accepted[k], t) + SumInWindow(K \ {k}, t)

\* C6: acquire accepts a request iff fewer than MAX_REQUESTS_PER_MINUTE
\* timestamps of the global window and fewer than the client limit of the
\* client's window are younger than 60 seconds, and rejects it with 429
\* otherwise; so the accepted requests of any 60 seconds are never more than
\* the limit, in all and for one client; and with a limit of 0 none is
\* accepted.
C6_Admission ==
    /\ [][ \A k \in ClientKeys :
             Acquires(k) =>
               /\ Accepted <=>
                    /\ InWindow(requests, now) < max_requests
                    /\ k # NoClient =>
                         InWindow(DictGet(client_requests, k, <<>>), now)
                           < Min(max_requests \div 4, 30)
               /\ ~Accepted =>
                    ret'.val \in {"429 Global rate limit exceeded",
                                  "429 Client rate limit exceeded"}
               /\ max_requests = 0 => ~Accepted ]_vars
    /\ [](\A t \in WindowEnds :
             /\ SumInWindow(ClientKeys, t) <= max_requests
             /\ \A k \in ClientKeys \ {NoClient} :
                   InWindow(accepted[k], t) <= Min(max_requests \div 4, 30))

\* A request accepted after the window, full before, lost its oldest
\* timestamps.
C6_Witness ==
    /\ ret.op = "acquire" /\ ret.val = "True"
    /\ max_requests > 0
    /\ SumInWindow(ClientKeys, now) = max_requests
    /\ \E k \in ClientKeys : \E i \in 1..Len(accepted[k]) :
          now - accepted[k][i] >= 60

\* C7 as stated: the client limit is MAX_REQUESTS_PER_MINUTE / 4, capped at
\* 30, as a real number: with the global window not full, a client's request
\* is accepted while fewer than that many of its timestamps are in the
\* window (n < MAX / 4 is 4 * n < MAX).
C7_RealQuarter ==
    [][ \A k \in ClientKeys \ {NoClient} :
          (Acquires(k) /\ InWindow(requests, now) < max_requests) =>
             LET n == InWindow(DictGet(client_requests, k, <<>>), now)
             IN  Accepted <=> (4 * n < max_requests /\ n < 30) ]_vars

\* C7, amended: the client limit is the whole part of
\* MAX_REQUESTS_PER_MINUTE / 4, capped at 30: with the global window not
\* full, a client's request is accepted while fewer than that many of its
\* timestamps are in the window, and rejected with 429 "Client rate limit
\* exceeded" otherwise.
C7_ClientLimit ==
    [][ \A k \in ClientKeys \ {NoClient} :
          (Acquires(k) /\ InWindow(requests, now) < max_requests) =>
             LET n == InWindow(DictGet(client_requests, k, <<>>), now)
                 whole == CHOOSE q \in 0..max_requests :
                              4 * q <= max_requests /\ max_requests < 4 * (q + 1)
                 L == IF whole < 30 THEN whole ELSE 30
             IN  /\ Accepted <=> n < L
                 /\ ~Accepted => ret'.val = "429 Client rate limit exceeded" ]_vars

\* The 31st request of a client in one window rejected under the cap of 30,
\* the global window not being full.
C7_Witness ==
    /\ ret.op = "acquire" /\ ret.val = "429 Client rate limit exceeded"
    /\ max_requests \div 4 > 30
    /\ InWindow(client_requests[ret.arg], now) = 30
    /\ InWindow(requests, now) < max_requests

(***************************************************************************)
(* translate_single                                                        *)
(***************************************************************************)
\* min(len(TRANSLATION_API_URLS), 5), and 3 when that is 0
max_retries_for(configured) ==
    IF Min(Len(configured), RetryCap) = 0 THEN RetryIfNone
    ELSE Min(Len(configured), RetryCap)

\* The locals at the top of the retry loop.
LoopEntry(text, source_lang, target_lang) ==
    [NoCall EXCEPT !.id = call.id + 1, !.pc = "select", !.text = text,
                   !.source_lang = source_lang, !.target_lang = target_lang,
                   !.max_retries = max_retries_for(TRANSLATION_API_URLS),
                   !.pool_at_start = urls,
                   !.unavailable_at_start =
                       {u \in Range(urls) :
                          ~StatusGet(status_dict, u, "available", TRUE)}]

\* A dispatcher that sends every text upstream.
translate_single_NoShortcut(text, source_lang, target_lang) ==
    /\ call' = LoopEntry(text, source_lang, target_lang)
    /\ UNCHANGED <<status_dict, pool_vars>>

\* The call up to its first await: the same-language return, or the entry
\* of the retry loop.
translate_single(text, source_lang, target_lang) ==
    /\ call' = IF source_lang = target_lang
               THEN [NoCall EXCEPT !.id = call.id + 1, !.pc = "returned",
                                   !.text = text,
                                   !.source_lang = source_lang,
                                   !.target_lang = target_lang,
                                   !.result = text]
               ELSE LoopEntry(text, source_lang, target_lang)
    /\ UNCHANGED <<status_dict, pool_vars>>

\* A loop that selects again for as long as the URL was tried.
Arrive_Insist(c) ==
    IF c.url \in c.tried_urls
    THEN [c EXCEPT !.pc = "reselect"]
    ELSE [c EXCEPT !.pc = "post", !.tried_urls = @ \cup {c.url}]

\* while url in tried_urls and retry_count < 3: select again after a pause;
\* otherwise tried_urls.add(url) and the POST.
Arrive(c) ==
    IF c.url \in c.tried_urls /\ c.retry_count < MaxReselect
    THEN [c EXCEPT !.pc = "reselect"]
    ELSE [c EXCEPT !.pc = "post", !.tried_urls = @ \cup {c.url}]

\* What get_next_url raises leaves translate_single.
Propagate(c, o) ==
    [c EXCEPT !.pc = "raised",
              !.raised = IF o.val = "503"
                         THEN "503 No available translation endpoints"
                         ELSE "exception"]

\* url = await url_rotator.get_next_url(), first of the attempt
Select(o) ==
    /\ call.pc = "select"
    /\ get_next_url(o)
    /\ call' = IF o.val \in {"503", "exception"} THEN Propagate(call, o)
               ELSE Arrive([call EXCEPT !.url = o.url, !.retry_count = 0])
    /\ UNCHANGED status_dict

\* url = await url_rotator.get_next_url(); retry_count += 1
Reselect(o) ==
    /\ call.pc = "reselect"
    /\ get_next_url(o)
    /\ call' = IF o.val \in {"503", "exception"} THEN Propagate(call, o)
               ELSE Arrive([call EXCEPT !.url = o.url,
                                        !.retry_count = @ + 1])
    /\ UNCHANGED status_dict

\* What the upstream does with a POST: no answer in time, a failed
\* connection, a status other than 200, a body that is not JSON, JSON with
\* no (or a null) data, JSON whose data is a string, JSON whose data is
\* another value (a number).
ResponseKinds ==
    {"timeout", "error", "status", "notjson", "nodata", "string", "number"}

Response(kind, data) == [kind |-> kind, data |-> data]

\* if translated_text and translated_text.strip()
IsTranslation(resp) ==
    resp.kind = "string" /\ resp.data # <<>> /\ strip(resp.data) # <<>>

\* The except clause or the statement that sets last_error.
LastError(resp) ==
    CASE resp.kind = "timeout" -> "Request timeout"
      [] resp.kind = "error"   -> "Request error"
      [] resp.kind = "number"  -> "Request error"
      [] resp.kind = "status"  -> "HTTP status"
      [] resp.kind = "notjson" -> "JSON decode error"
      [] OTHER                 -> "Invalid API response"

\* The failures handled inside the async with block end in continue.
Continues(resp) ==
    resp.kind \in {"status", "notjson", "nodata", "string"}

\* The end of an iteration of the for loop: the next attempt, or the 503
\* after the last one.
NextAttempt(c) ==
    IF c.attempt + 1 < c.max_retries
    THEN [c EXCEPT !.attempt = @ + 1, !.pc = "select"]
    ELSE [c EXCEPT !.pc = "raised", !.raised = "503 Translation failed"]

\* min(2 ** attempt * 0.1, 2.0), in milliseconds
backoff_time(attempt) == Min((2 ^ attempt) * 100, 2000)

\* A dispatcher that reports to HealthState only the failures of its
\* except clauses.
Post_NoReport(resp, duration) ==
    /\ call.pc = "post"
    /\ LET posted == [call EXCEPT !.posts = Append(@, call.url),
                                  !.response = resp]
       IN  IF IsTranslation(resp)
           THEN /\ status_dict' = update_status(status_dict, call.url, TRUE,
                                                duration, Len(resp.data), now)
                /\ call' = [posted EXCEPT !.pc = "returned",
                                          !.result = resp.data]
           ELSE /\ status_dict' =
                     IF Continues(resp) THEN status_dict
                     ELSE update_status(status_dict, call.url, FALSE,
                                        None, None, now)
                /\ call' =
                     LET failed == [posted EXCEPT !.last_error = LastError(resp)]
                     IN  IF Continues(resp) THEN NextAttempt(failed)
                         ELSE IF failed.attempt < failed.max_retries - 1
                         THEN [failed EXCEPT
                                 !.pc = "backoff",
                                 !.sleeps = Append(@, backoff_time(failed.attempt))]
                         ELSE NextAttempt(failed)
    /\ UNCHANGED pool_vars

\* The POST of the attempt and the handling of its response.
Post(resp, duration) ==
    /\ call.pc = "post"
    /\ LET posted == [call EXCEPT !.posts = Append(@, call.url),
                                  !.response = resp]
       IN  IF IsTranslation(resp)
           THEN /\ status_dict' = update_status(status_dict, call.url, TRUE,
                                                duration, Len(resp.data), now)
                /\ call' = [posted EXCEPT !.pc = "returned",
                                          !.result = resp.data]
           ELSE /\ status_dict' = update_status(status_dict, call.url, FALSE,
                                                None, None, now)
                /\ call' =
                     LET failed == [posted EXCEPT !.last_error = LastError(resp)]
                     IN  IF Continues(resp) THEN NextAttempt(failed)
                         ELSE IF failed.attempt < failed.max_retries - 1
                         THEN [failed EXCEPT
                                 !.pc = "backoff",
                                 !.sleeps = Append(@, backoff_time(failed.attempt))]
                         ELSE NextAttempt(failed)
    /\ UNCHANGED pool_vars

\* await asyncio.sleep(backoff_time) is over.
Backoff ==
    /\ call.pc = "backoff"
    /\ call' = NextAttempt(call)
    /\ UNCHANGED <<status_dict, pool_vars>>

(***************************************************************************)
(* The dispatcher with its caller left open: calls one after another, of   *)
(* any text and languages, against upstreams that answer in any way.       *)
(***************************************************************************)
Chars == <<"a", "b", "c", "d", "e", "f", "g">>

\* A text of n characters.
TextOfLen(n) == [i \in 1..n |-> Chars[(i % 7) + 1]]

DispatchTexts == {TextOfLen(2), <<"a", " ", "b">>}
\* (source_lang, target_lang) as chat_completions parses them from the
\* model name: "deepl-EN-EN", "deepl-", "deepl-EN", "deepl-EN-ZH".
LangPairs == {<<"EN", "EN">>, <<"", "">>, <<"", "EN">>, <<"EN", "ZH">>}
DispatchResponses ==
    {Response(k, <<>>) : k \in ResponseKinds}
      \cup {Response("string", <<" ">>), Response("string", TextOfLen(3))}
Durations == {1000}

DispatchBegin ==
    \E text \in DispatchTexts, langs \in LangPairs :
        /\ call.pc \in {"idle", "returned", "raised"}
        /\ call.id < MaxCalls
        /\ translate_single(text, langs[1], langs[2])
        /\ UNCHANGED <<now, config_vars, rate_vars, ret, sse, http, check_vars>>

DispatchSelect ==
    \E o \in NextUrlOutcomes :
        /\ Select(o)
        /\ UNCHANGED <<now, config_vars, rate_vars, ret, sse, http, check_vars>>

DispatchReselect ==
    \E o \in NextUrlOutcomes :
        /\ Reselect(o)
        /\ UNCHANGED <<now, config_vars, rate_vars, ret, sse, http, check_vars>>

\* An upstream that answers with the text it was sent.
Echo(text) == Response("string", text)

DispatchPost ==
    \E resp \in DispatchResponses \cup {Echo(call.text)},
       duration \in Durations :
        /\ Post(resp, duration)
        /\ UNCHANGED <<now, config_vars, rate_vars, ret, sse, http, check_vars>>

DispatchBackoff ==
    /\ Backoff
    /\ UNCHANGED <<now, config_vars, rate_vars, ret, sse, http, check_vars>>

NextDispatch ==
    \/ DispatchBegin
    \/ DispatchSelect
    \/ DispatchReselect
    \/ DispatchPost
    \/ DispatchBackoff

DispatchConfigs == {<<UrlA>>, <<UrlA, UrlB>>, <<UrlA, <<" ">>>>}

SpecDispatch ==
    /\ \E env \in DispatchConfigs : InitWith(env, DefaultMaxRequests)
    /\ [][NextDispatch]_vars

\* C8: a translate call with source_lang equal to target_lang returns
\* exactly the input text and makes no upstream call: it selects no URL,
\* changes no request_count and no last_used, and creates or updates no
\* health record.
C8_SameLanguage ==
    /\ [][ (call'.id # call.id /\ call'.source_lang = call'.target_lang) =>
             /\ call'.pc = "returned"
             /\ call'.result = call'.text
             /\ call'.posts = <<>>
             /\ UNCHANGED <<urls, request_counts, last_used, url_weights,
                            status_dict>> ]_vars
    /\ [][ (call.source_lang = call.target_lang /\ call'.id = call.id) =>
             UNCHANGED <<call, urls, request_counts, last_used, status_dict>>
         ]_<<call, pool_vars, status_dict>>

\* A same-language call returned after an earlier call had selected URLs
\* and updated health records.
C8_Witness ==
    /\ call.id > 1
    /\ call.pc = "returned"
    /\ call.source_lang = call.target_lang
    /\ call.result = <<"a", " ", "b">>
    /\ status_dict # <<>>
    /\ \E u \in Range(urls) : request_counts[u] > 0

(***************************************************************************)
(* chat_completions.sse_translate                                          *)
(***************************************************************************)
\* The frames of the stream: a JSON object after "data: ", or the sentinel
\* "data: [DONE]".  delta holds the content when the delta has one; error
\* holds message, type and code of an error object.
ChunkFrame(delta, finish_reason) ==
    [object |-> "chat.completion.chunk", delta |-> delta,
     finish_reason |-> finish_reason, error |-> <<>>]

ErrorFrame(message, type, code) ==
    [object |-> "error", delta |-> <<>>, finish_reason |-> "",
     error |-> <<message, type, code>>]

DoneFrame ==
    [object |-> "[DONE]", delta |-> <<>>, finish_reason |-> "", error |-> <<>>]

Yield(s, frame) == [s EXCEPT !.frames = Append(@, frame)]

\* A slice that forgets the start of the chunk in its end.
chunk_NoOffset(translated_text, i) ==
    SubSeq(translated_text, i + 1, Min(ChunkSize, Len(translated_text)))

\* translated_text[i:i + chunk_size]
chunk(translated_text, i) ==
    SubSeq(translated_text, i + 1, Min(i + ChunkSize, Len(translated_text)))

\* e.detail of the HTTPException that left translate_single
Detail(c) ==
    IF c.raised = "503 Translation failed"
    THEN <<"Translation failed after", c.max_retries,
           "attempts. Last error:", c.last_error>>
    ELSE <<"No available translation endpoints">>

\* except HTTPException as e
CatchHTTPException(s, detail, status_code) ==
    [Yield(s, ErrorFrame(detail, "translation_error", status_code))
       EXCEPT !.pc = "finally", !.caught = "HTTPException"]

\* except Exception as e
CatchException(s) ==
    [Yield(s, ErrorFrame(<<"Internal server error during translation">>,
                         "internal_error", 500))
       EXCEPT !.pc = "finally", !.caught = "Exception"]

\* The sentinel as the last statement of the try block.
Finally_AfterSuccess(s) ==
    IF s.caught = "None" THEN [Yield(s, DoneFrame) EXCEPT !.pc = "closed"]
    ELSE [s EXCEPT !.pc = "closed"]

\* finally: yield "data: [DONE]\n\n"
Finally(s) == [Yield(s, DoneFrame) EXCEPT !.pc = "closed"]

\* StreamingResponse starts the generator.
StreamOpen(text, source_lang, target_lang) ==
    /\ sse.pc = "idle"
    /\ sse' = [NoStream EXCEPT !.pc = "session", !.text = text,
                               !.source_lang = source_lang,
                               !.target_lang = target_lang]
    /\ UNCHANGED <<call, status_dict, pool_vars>>

\* The connector and the session are created, or their creation raises; then
\* translate_single is called.
StreamSession(raises) ==
    /\ sse.pc = "session"
    /\ IF raises
       THEN /\ sse' = CatchException(sse)
            /\ UNCHANGED <<call, status_dict, pool_vars>>
       ELSE /\ sse' = [sse EXCEPT !.pc = "await"]
            /\ translate_single(sse.text, sse.source_lang, sse.target_lang)

\* translate_single has returned or raised.
StreamResume ==
    /\ sse.pc = "await"
    /\ call.pc \in {"returned", "raised"}
    /\ sse' = IF call.pc = "returned"
              THEN [sse EXCEPT !.pc = "chunks", !.translated_text = call.result,
                               !.i = 0]
              ELSE IF call.raised = "exception" THEN CatchException(sse)
              ELSE CatchHTTPException(sse, Detail(call), 503)
    /\ UNCHANGED <<call, status_dict, pool_vars>>

\* for i in range(0, len(translated_text), chunk_size): yield the chunk;
\* after the loop, yield the finish signal.
StreamChunk ==
    /\ sse.pc = "chunks"
    /\ sse' = IF sse.i < Len(sse.translated_text)
              THEN [Yield(sse, ChunkFrame(<<chunk(sse.translated_text, sse.i)>>,
                                          "None"))
                      EXCEPT !.i = @ + ChunkSize]
              ELSE [Yield(sse, ChunkFrame(<<>>, "stop")) EXCEPT !.pc = "finally"]
    /\ UNCHANGED <<call, status_dict, pool_vars>>

StreamDone ==
    /\ sse.pc = "finally"
    /\ sse' = Finally(sse)
    /\ UNCHANGED <<call, status_dict, pool_vars>>

(***************************************************************************)
(* One streaming response, from the start of the generator to its end,     *)
(* against upstreams that answer in any way.                               *)
(***************************************************************************)
StreamTexts == {TextOfLen(2), TextOfLen(200)}
StreamLangPairs == {<<"EN", "EN">>, <<"", "EN">>}
TranslationLengths == {1, 99, 100, 101, 350}
StreamResponses ==
    {Response("timeout", <<>>), Response("status", <<>>)}
      \cup {Response("string", TextOfLen(n)) : n \in TranslationLengths}

StreamFrame == <<now, config_vars, rate_vars, ret, http, check_vars>>

StreamStart ==
    \E text \in StreamTexts, langs \in StreamLangPairs :
        /\ StreamOpen(text, langs[1], langs[2])
        /\ UNCHANGED StreamFrame

StreamBegin ==
    \E raises \in BOOLEAN :
        /\ StreamSession(raises)
        /\ UNCHANGED StreamFrame

StreamPost ==
    \E resp \in StreamResponses, duration \in Durations :
        /\ Post(resp, duration)
        /\ UNCHANGED <<StreamFrame, sse>>

StreamReturn == StreamResume /\ UNCHANGED StreamFrame

StreamYield == StreamChunk /\ UNCHANGED StreamFrame

StreamEnd == StreamDone /\ UNCHANGED StreamFrame

NextStream ==
    \/ StreamStart
    \/ StreamBegin
    \/ DispatchSelect
    \/ DispatchReselect
    \/ StreamPost
    \/ DispatchBackoff
    \/ StreamReturn
    \/ StreamYield
    \/ StreamEnd

StreamConfigs == {<<UrlA>>, <<UrlA, <<" ">>>>, <<UrlA, UrlB>>}

SpecStream ==
    /\ \E env \in StreamConfigs : InitWith(env, DefaultMaxRequests)
    /\ [][NextStream]_vars

\* The generator runs on while its consumer reads and the upstream answers
\* or times out.
SpecStreamLive == SpecStream /\ WF_vars(NextStream)

\* The positions of the frames of one kind.
FramesOf(object) ==
    {k \in 1..Len(sse.frames) : sse.frames[k].object = object}

\* C9: every streaming response ends with the sentinel frame, emitted once
\* and as the last frame, whether the translation succeeds, fails with an
\* HTTP error or fails with an unexpected exception; on the two error paths
\* exactly one error frame with message, type and code precedes the
\* sentinel, on the success path none.
C9_Sentinel ==
    /\ [](\A k \in FramesOf("[DONE]") :
             k = Len(sse.frames) /\ sse.pc = "closed")
    /\ [](sse.pc = "closed" =>
            /\ FramesOf("[DONE]") = {Len(sse.frames)}
            /\ Len(sse.frames) >= 2
            /\ IF call.pc = "raised"
               THEN /\ FramesOf("error") = {Len(sse.frames) - 1}
                    /\ sse.frames[Len(sse.frames) - 1].error =
                         <<Detail(call), "translation_error", 503>>
               ELSE IF call.pc = "returned"
               THEN FramesOf("error") = {}
               ELSE /\ FramesOf("error") = {Len(sse.frames) - 1}
                    /\ sse.frames[Len(sse.frames) - 1].error[2] = "internal_error"
                    /\ sse.frames[Len(sse.frames) - 1].error[3] = 500)
    /\ (sse.pc # "idle") ~> (sse.pc = "closed")

\* A response closed after retry exhaustion, with the error frame and the
\* sentinel.
C9_Witness ==
    /\ sse.pc = "closed"
    /\ call.pc = "raised"
    /\ Len(call.posts) = 2
    /\ Len(sse.frames) = 2

RECURSIVE Concat(_)
Concat(chunks) ==
    IF chunks = <<>> THEN <<>> ELSE Head(chunks) \o Concat(Tail(chunks))

\* C10: a successful streaming translation of n characters is streamed as
\* ceil(n / 100) content chunks in text order, each of at most 100
\* characters and all but the last of exactly 100, whose concatenation is
\* the translated text, then one chunk with an empty delta and
\* finish_reason "stop", then the sentinel.
C10_Chunks ==
    (sse.pc = "closed" /\ call.pc = "returned") =>
        LET n == Len(call.result)
            m == Len(sse.frames) - 2
        IN  /\ m >= 0
            /\ 100 * (m - 1) < n /\ n <= 100 * m
            /\ \A k \in 1..m :
                  /\ sse.frames[k].object = "chat.completion.chunk"
                  /\ sse.frames[k].finish_reason = "None"
                  /\ Len(sse.frames[k].delta) = 1
                  /\ Len(sse.frames[k].delta[1]) <= 100
                  /\ k < m => Len(sse.frames[k].delta[1]) = 100
            /\ Concat([k \in 1..m |-> sse.frames[k].delta[1]]) = call.result
            /\ sse.frames[m + 1] = ChunkFrame(<<>>, "stop")
            /\ sse.frames[m + 2] = DoneFrame

\* A translation of 350 characters streamed as chunks of 100, 100, 100 and
\* 50 characters.
C10_Witness ==
    /\ sse.pc = "closed"
    /\ call.pc = "returned"
    /\ call.posts # <<>>
    /\ Len(call.result) = 350
    /\ Len(sse.frames) = 6
    /\ [k \in 1..4 |-> Len(sse.frames[k].delta[1])] = <<100, 100, 100, 50>>

(***************************************************************************)
(* The dispatcher while the supervisor replaces the pool.                  *)
(***************************************************************************)
RetryNewUrls == {<<UrlB>>, <<UrlA, UrlB>>}

RetryUpdateUrls ==
    \E new_urls \in RetryNewUrls :
        /\ update_urls(new_urls)
        /\ UNCHANGED <<now, status_dict, config_vars, rate_vars, request_vars, check_vars, ret>>

RetryTick == Tick(RetryTickStep, StartTime + MaxTicksRetry * RetryTickStep)

RetryResponses ==
    {Response("status", <<>>), Response("timeout", <<>>),
     Response("string", TextOfLen(3))}

RetryBegin ==
    /\ call.pc \in {"idle", "returned", "raised"}
    /\ call.id < MaxCallsRetry
    /\ translate_single(TextOfLen(2), <<>>, <<"E", "N">>)
    /\ UNCHANGED <<now, config_vars, rate_vars, ret, sse, http, check_vars>>

RetryPost ==
    \E resp \in RetryResponses, duration \in Durations :
        /\ Post(resp, duration)
        /\ UNCHANGED <<now, config_vars, rate_vars, ret, sse, http, check_vars>>

NextRetry ==
    \/ RetryBegin
    \/ DispatchSelect
    \/ DispatchReselect
    \/ RetryPost
    \/ DispatchBackoff
    \/ RetryUpdateUrls
    \/ RetryTick

SpecRetry ==
    /\ InitWith(<<UrlA, UrlB>>, DefaultMaxRequests)
    /\ [][NextRetry]_vars

\* The number of POSTs of the call that went to url.
PostsTo(url) == Cardinality({k \in 1..Len(call.posts) : call.posts[k] = url})

\* C11: when every attempt of a translate call fails, the call has made
\* clamp(len(pool), 1, 5) upstream POSTs, pool being the active pool at the
\* start of the call (also after the pool was replaced by a smaller one),
\* and fails with 503 whose message includes the last error; every URL
\* attempted ends with consecutive_failures >= 1.
C11_RetriesMatchPool ==
    (call.pc = "raised" /\ call.raised = "503 Translation failed") =>
        LET n == Len(call.pool_at_start)
            clamp == IF n < 1 THEN 1 ELSE IF n > 5 THEN 5 ELSE n
        IN  /\ Len(call.posts) = clamp
            /\ Detail(call)[4] = call.last_error
            /\ call.last_error # "None"
            /\ \A u \in Range(call.posts) :
                  status_dict[u].consecutive_failures >= 1

\* C12: for a pool of at most 5 URLs none of which is marked unavailable
\* when the call starts, and with nothing else running, each attempt of the
\* call goes to a URL not yet tried in the call; so when the first upstream
\* fails and the second returns a translation, the call returns it, the
\* first URL has consecutive_failures = 1 and the second 0.
C12_Failover ==
    (/\ call.pc \in {"post", "backoff", "select", "reselect", "returned", "raised"}
     /\ call.source_lang # call.target_lang
     /\ Len(call.pool_at_start) <= 5
     /\ call.unavailable_at_start = {}) =>
        /\ \A u \in Range(call.posts) : PostsTo(u) = 1
        /\ call.pc = "post" => call.url \notin Range(call.posts)
        /\ (call.pc = "returned" /\ Len(call.posts) = 2) =>
              /\ call.result # <<>>
              /\ status_dict[call.posts[1]].consecutive_failures = 1
              /\ status_dict[call.posts[2]].consecutive_failures = 0

(***************************************************************************)
(* URLStatus.check_url                                                     *)
(***************************************************************************)
\* The value of the data field of a JSON body: absent, null, a string or a
\* number.
Json(type, text, num) == [type |-> type, text |-> text, num |-> num]

NoData == Json("missing", <<>>, 0)

Digit(d) == <<"0", "1", "2", "3", "4", "5", "6", "7", "8", "9">>[d + 1]

\* str(n) of a natural number
RECURSIVE str_int(_)
str_int(n) ==
    IF n < 10 THEN <<Digit(n)>> ELSE str_int(n \div 10) \o <<Digit(n % 10)>>

\* str(result.get("data"))
str(data) == IF data.type = "number" THEN str_int(data.num) ELSE data.text

\* 'data' in result and result.get("data")
HasData(data) ==
    /\ data.type \notin {"missing", "null"}
    /\ data.type = "string" => data.text # <<>>
    /\ data.type = "number" => data.num # 0

\* What the upstream does with the probe: no answer in time, a failed
\* connection, a status other than 200, a body that is not JSON, a JSON
\* object.
ProbeResponse(kind, data) == [kind |-> kind, data |-> data]

\* A probe that takes any text for a translation.
probe_error_NoEcho(test_text, resp) ==
    CASE resp.kind = "timeout" -> "Connection timeout"
      [] resp.kind = "error"   -> "Connection error"
      [] resp.kind = "status"  -> "HTTP status"
      [] resp.kind = "notjson" -> "Invalid JSON response"
      [] OTHER ->
           IF HasData(resp.data)
           THEN IF Len(str(resp.data)) > 0 /\ strip(str(resp.data)) # <<>>
                THEN "None"
                ELSE "Empty or invalid translation response"
           ELSE "Invalid response format - missing 'data' field"

\* The error of the result: "None" for an available URL.
probe_error(test_text, resp) ==
    CASE resp.kind = "timeout" -> "Connection timeout"
      [] resp.kind = "error"   -> "Connection error"
      [] resp.kind = "status"  -> "HTTP status"
      [] resp.kind = "notjson" -> "Invalid JSON response"
      [] OTHER ->
           IF HasData(resp.data)
           THEN IF /\ Len(str(resp.data)) > 0
                   /\ strip(str(resp.data)) # <<>>
                   /\ str(resp.data) # test_text
                THEN "None"
                ELSE "Empty or invalid translation response"
           ELSE "Invalid response format - missing 'data' field"

\* The probe of url: the POST of test_text, the update of the health record
\* and the result returned.
check_url(url, test_text, resp, latency) ==
    LET error == probe_error(test_text, resp)
        available == error = "None"
        response_length == IF available THEN Len(str(resp.data)) ELSE None
    IN  /\ status_dict' =
             IF available
             THEN update_status(status_dict, url, TRUE, latency,
                                response_length, now)
             ELSE update_status(status_dict, url, FALSE, None, None, now)
        /\ ret' = Ret("check_url", <<url, test_text, resp>>,
                      [url |-> url, available |-> available,
                       latency |-> IF available THEN latency ELSE None,
                       error |-> error,
                       response_length |-> response_length])

(***************************************************************************)
(* Probes on their own, against upstreams that answer in any way.          *)
(***************************************************************************)
\* The values of TEST_TEXT explored.
TestTexts == {<<"H", "i">>, <<"7">>}

ProbeData ==
    {NoData, Json("null", <<>>, 0),
     Json("string", <<>>, 0), Json("string", <<" ">>, 0),
     Json("string", <<"H", "i">>, 0), Json("string", <<"O", "k">>, 0),
     Json("string", <<"7">>, 0),
     Json("number", <<>>, 0), Json("number", <<>>, 7), Json("number", <<>>, 12)}

ProbeResponses ==
    {ProbeResponse(k, NoData) : k \in {"timeout", "error", "status", "notjson"}}
      \cup {ProbeResponse("json", d) : d \in ProbeData}

ProbeCheck ==
    \E url \in HealthURLs, test_text \in TestTexts, resp \in ProbeResponses,
       latency \in Durations :
        /\ StatusGet(status_dict, url, "total_checks", 0) < MaxChecksProbe
        /\ check_url(url, test_text, resp, latency)
        /\ UNCHANGED <<now, pool_vars, config_vars, rate_vars, request_vars, check_vars>>

NextProbe == ProbeCheck

SpecProbe == InitWith(<<UrlA, UrlB>>, DefaultMaxRequests) /\ [][NextProbe]_vars

\* A step of check_url.
Probes == ret'.op = "check_url" /\ ret'.bit # ret.bit

\* Some character of text is not whitespace.
NotBlank(text) == \E k \in 1..Len(text) : text[k] # " "

ProbeReasons ==
    {"Connection timeout", "Connection error", "HTTP status",
     "Invalid JSON response", "Empty or invalid translation response",
     "Invalid response format - missing 'data' field"}

\* C13 as stated: a probe finds the URL available iff the response is HTTP
\* 200, the body parses as JSON, a non-null data field exists, str(data) is
\* non-empty and str(data) differs from the probe text.
C13_NonNullData ==
    [][ Probes =>
          LET resp == ret'.arg[3]
          IN  ret'.val.available <=>
                /\ resp.kind = "json"
                /\ resp.data.type \notin {"missing", "null"}
                /\ str(resp.data) # <<>>
                /\ str(resp.data) # ret'.arg[2] ]_vars

\* C13, amended: a probe finds the URL available iff the response is HTTP
\* 200, the body parses as JSON, a data field exists whose value is not
\* null, not 0 and not the empty string, str(data) is not blank and
\* str(data) differs from the probe text; an echo response is unavailable
\* with reason "Empty or invalid translation response", every other outcome
\* is unavailable with one of the listed reasons; the health record is
\* updated with the same verdict.
C13_ProbeVerdict ==
    [][ Probes =>
          LET url == ret'.arg[1]
              test_text == ret'.arg[2]
              resp == ret'.arg[3]
              data == resp.data
              present == /\ resp.kind = "json"
                         /\ data.type \in {"string", "number"}
                         /\ data.type = "string" => data.text # <<>>
                         /\ data.type = "number" => data.num > 0
          IN  /\ ret'.val.available <=>
                   /\ present
                   /\ NotBlank(str(data))
                   /\ str(data) # test_text
              /\ ret'.val.available => ret'.val.error = "None"
              /\ ~ret'.val.available => ret'.val.error \in ProbeReasons
              /\ (present /\ str(data) = test_text) =>
                   ret'.val.error = "Empty or invalid translation response"
              /\ status_dict'[url].available = ret'.val.available ]_vars

\* An echo upstream: a probe whose answer is a number that reads as the
\* probe text, found unavailable.
C13_Witness ==
    /\ ret.op = "check_url"
    /\ ret.arg[3].kind = "json"
    /\ ret.arg[3].data.type = "number"
    /\ str(ret.arg[3].data) = ret.arg[2]
    /\ ~ret.val.available
    /\ ret.val.error = "Empty or invalid translation response"
    /\ ~status_dict[ret.arg[1]].available

(***************************************************************************)
(* GET /v1/urls/status                                                     *)
(***************************************************************************)
\* if status.get('latency', 0) > 2.0 raises TypeError when the latency is
\* None.
ScoreFails(status) == status.latency = None

\* health_score of one record
health_score(status) ==
    LET after_failures ==
            IF status.consecutive_failures > 0
            THEN 100 - Min(status.consecutive_failures * 20, 80)
            ELSE 100
        after_latency ==
            IF status.latency > 2000 THEN after_failures - 10
            ELSE after_failures
    IN  Max(0, after_latency)

\* The response of the handler: the snapshot with the health scores, or
\* the 500 of its except clause.
get_urls_status ==
    IF \E u \in DOMAIN status_dict : ScoreFails(status_dict[u])
    THEN [status_code |-> 500, health_score |-> <<>>]
    ELSE [status_code |-> 200,
          health_score |-> [u \in DOMAIN status_dict |->
                               health_score(status_dict[u])]]

\* C15: in every reachable HealthState, also with records whose last
\* update was a failure (latency null), GET /v1/urls/status returns the
\* snapshot with, for each recorded URL, health_score = 100 -
\* min(20 * consecutive_failures, 80) - (10 if latency > 2.0 s else 0), a
\* value in 0..100.
C15_HealthScore ==
    LET response == get_urls_status
    IN  /\ response.status_code = 200
        /\ DOMAIN response.health_score = DOMAIN status_dict
        /\ \A u \in DOMAIN status_dict :
              LET r == status_dict[u]
                  failures == IF 20 * r.consecutive_failures < 80
                              THEN 20 * r.consecutive_failures ELSE 80
                  slow == IF r.latency # None /\ r.latency > 2000 THEN 10 ELSE 0
              IN  /\ response.health_score[u] = 100 - failures - slow
                  /\ response.health_score[u] \in 0..100

(***************************************************************************)
(* Claims about the attempts of a call.                                    *)
(***************************************************************************)
\* A step in which the call makes a POST.
Attempts == Len(call'.posts) = Len(call.posts) + 1 /\ call'.id = call.id

\* C17: every dispatch attempt makes exactly one HealthState update, for
\* the URL attempted: success = true on a valid response, success = false
\* on a status other than 200, invalid or empty data, a JSON error, a
\* timeout or a connection error; the update is made before the next
\* attempt starts and before an error is returned, and no failure of an
\* upstream reaches the caller while attempts remain.  A successful first
\* attempt leaves the URL with available = true, consecutive_failures = 0
\* and total_checks increased by 1.
C17_OneUpdatePerAttempt ==
    /\ [][ Attempts =>
             LET url == call.url
                 resp == call'.response
                 valid == /\ resp.kind = "string"
                          /\ \E k \in 1..Len(resp.data) : resp.data[k] # " "
                 before == StatusGet(status_dict, url, "total_checks", 0)
             IN  /\ call'.posts[Len(call'.posts)] = url
                 /\ DOMAIN status_dict' = DOMAIN status_dict \cup {url}
                 /\ \A u \in DOMAIN status_dict \ {url} :
                       status_dict'[u] = status_dict[u]
                 /\ status_dict'[url].total_checks = before + 1
                 /\ status_dict'[url].available = valid
                 /\ valid => /\ status_dict'[url].consecutive_failures = 0
                             /\ call'.pc = "returned"
                             /\ call'.result = resp.data
                 /\ ~valid =>
                       /\ status_dict'[url].consecutive_failures =
                            StatusGet(status_dict, url,
                                      "consecutive_failures", 0) + 1
                       /\ call'.pc \in {"select", "backoff", "raised"}
                       /\ call'.pc = "raised" <=>
                            Len(call'.posts) = call'.max_retries ]_vars
    /\ [][ ~Attempts =>
             /\ status_dict' = status_dict
             /\ (call'.pc = "raised" /\ call.pc # "raised") =>
                   call'.raised # "503 Translation failed" ]_vars

\* A call that returned from its first attempt, to a URL with an earlier
\* record: the record counts one check more and marks the URL available.
C17_Witness ==
    /\ call.pc = "returned"
    /\ Len(call.posts) = 1
    /\ call.id = 2
    /\ status_dict[call.url].total_checks = 2
    /\ status_dict[call.url].available
    /\ status_dict[call.url].consecutive_failures = 0

\* A step in which get_next_url returns a URL to the call.
Selected ==
    \/ call.pc = "select" /\ call'.pc \in {"post", "reselect"}
    \/ call.pc = "reselect" /\ call'.retry_count = call.retry_count + 1

\* C18: every successful call of get_next_url, on the scored path and on
\* the random fallback path alike, adds 1 to the request_count of the URL
\* it returns and sets its last_used to now, and leaves request_count,
\* last_used and weight of every other URL and the URL list unchanged.
C18_SelectionTracks ==
    [][ Selected =>
          LET url == call'.url
          IN  /\ url \in Range(urls)
              /\ urls' = urls
              /\ url_weights' = url_weights
              /\ DOMAIN request_counts' = DOMAIN request_counts
              /\ DOMAIN last_used' = DOMAIN last_used
              /\ request_counts'[url] = request_counts[url] + 1
              /\ last_used'[url] = now
              /\ \A u \in DOMAIN request_counts \ {url} :
                    /\ request_counts'[u] = request_counts[u]
                    /\ last_used'[u] = last_used[u] ]_vars

\* A URL returned by the fallback: every URL of the pool is marked
\* unavailable, and one was selected after its last failure.
C18_Witness ==
    /\ call.pc = "post"
    /\ call.url \in Range(urls)
    /\ \A u \in Range(urls) :
          u \in DOMAIN status_dict /\ ~status_dict[u].available
    /\ request_counts[call.url] >= 2
    /\ last_used[call.url] = now
    /\ status_dict[call.url].last_check < now

(***************************************************************************)
(* Claims about the URL list and the order of admission.                   *)
(***************************************************************************)
\* C19: after update_urls(new_urls) the active URL list holds every URL at
\* most once, trimmed of surrounding whitespace and without empty entries,
\* also when new_urls holds the same URL several times.
C19_NoDuplicates ==
    [][ (ret'.op = "update_urls" /\ ret'.bit # ret.bit /\ ret'.val = "updated") =>
          /\ \A i, j \in 1..Len(urls') : urls'[i] = urls'[j] => i = j
          /\ \A i \in 1..Len(urls') :
                /\ urls'[i] # <<>>
                /\ urls'[i][1] # " "
                /\ urls'[i][Len(urls'[i])] # " " ]_vars

\* The timestamps of window that are younger than 60 seconds, in order.
Recent(window) == SelectSeq(window, LAMBDA t : now - t < 60)

\* C20: admission checks the global window first and the client's window
\* second: a request that exceeds both limits is rejected with "Global
\* rate limit exceeded"; a rejected request appends no timestamp to the
\* global window or to any client's window; an accepted request appends
\* one timestamp to the global window and one to its client's window.
C20_AdmissionOrder ==
    [][ \A k \in ClientKeys :
          Acquires(k) =>
            LET before == DictGet(client_requests, k, <<>>)
                global_full == Len(Recent(requests)) >= max_requests
                client_full == /\ k # NoClient
                               /\ Len(Recent(before)) >= Min(max_requests \div 4, 30)
            IN  /\ global_full => ret'.val = "429 Global rate limit exceeded"
                /\ (client_full /\ ~global_full) =>
                      ret'.val = "429 Client rate limit exceeded"
                /\ ~Accepted =>
                      /\ requests' = Recent(requests)
                      /\ \A c \in DOMAIN client_requests' :
                            client_requests'[c] \in
                               {DictGet(client_requests, c, <<>>),
                                Recent(DictGet(client_requests, c, <<>>))}
                /\ Accepted =>
                      /\ requests' = Append(Recent(requests), now)
                      /\ k # NoClient =>
                            /\ client_requests'[k] = Append(Recent(before), now)
                            /\ \A c \in DOMAIN client_requests' \ {k} :
                                  /\ c \in DOMAIN client_requests
                                  /\ client_requests'[c] = client_requests[c]
                      /\ k = NoClient => client_requests' = client_requests ]_vars

\* A request of a client whose own window is full, rejected for the global
\* limit.
C20_Witness ==
    /\ ret.op = "acquire" /\ ret.val = "429 Global rate limit exceeded"
    /\ ret.arg # NoClient
    /\ max_requests > 0
    /\ ret.arg \in DOMAIN client_requests
    /\ Len(Recent(client_requests[ret.arg])) >= Min(max_requests \div 4, 30)
    /\ Len(Recent(requests)) >= max_requests

(***************************************************************************)
(* chat_completions                                                        *)
(***************************************************************************)
LowerCase == <<"a", "b", "c", "d", "e", "f", "g", "h", "i", "j", "k", "l", "m", "n", "o", "p", "q", "r", "s", "t", "u", "v", "w", "x", "y", "z">>
UpperCase == <<"A", "B", "C", "D", "E", "F", "G", "H", "I", "J", "K", "L", "M", "N", "O", "P", "Q", "R", "S", "T", "U", "V", "W", "X", "Y", "Z">>

\* str.upper() and str.lower()
upper(text) ==
    [k \in 1..Len(text) |->
        IF \E i \in 1..26 : LowerCase[i] = text[k]
        THEN UpperCase[CHOOSE i \in 1..26 : LowerCase[i] = text[k]]
        ELSE text[k]]

lower(text) ==
    [k \in 1..Len(text) |->
        IF \E i \in 1..26 : UpperCase[i] = text[k]
        THEN LowerCase[CHOOSE i \in 1..26 : UpperCase[i] = text[k]]
        ELSE text[k]]

\* needle in text
contains(text, needle) ==
    \E k \in 0..(Len(text) - Len(needle)) :
        SubSeq(text, k + 1, k + Len(needle)) = needle

\* len(text.split())
word_count(text) ==
    Cardinality({k \in 1..Len(text) :
                   text[k] # " " /\ (k = 1 \/ text[k - 1] = " ")})

EventStream == <<"t", "e", "x", "t", "/", "e", "v", "e", "n", "t", "-", "s", "t", "r", "e", "a", "m">>

\* get_streaming_support: ENABLE_STREAMING reads "true" whatever its case,
\* and the Accept header names text/event-stream.
get_streaming_support(enable_streaming, accept) ==
    /\ lower(enable_streaming) = <<"t", "r", "u", "e">>
    /\ contains(accept, EventStream)

\* A handler that streams whenever streaming is supported.
use_streaming_Supported(stream, supports_streaming) == supports_streaming

\* use_streaming = chat_request.stream and supports_streaming
use_streaming(stream, supports_streaming) == stream /\ supports_streaming

\* A message of the request: its role, the type of its content, and the
\* content (of a dict, its text).
Message(role, type, text) == [role |-> role, type |-> type, text |-> text]

\* The content of the first message of role user: a string, the text of a
\* dict, or nothing.
RECURSIVE user_text(_)
user_text(messages) ==
    IF messages = <<>> THEN <<>>
    ELSE IF Head(messages).role = "user"
    THEN IF Head(messages).type \in {"str", "dict"} THEN Head(messages).text
         ELSE <<>>
    ELSE user_text(Tail(messages))

\* raise HTTPException(status_code, detail), or the 500 of the last except
\* clause
Answer(req, status, detail) ==
    [NoHttp EXCEPT !.pc = "responded", !.status = status, !.detail = detail,
                   !.stream = req.stream, !.accept = req.accept,
                   !.enable_streaming = req.enable_streaming]

\* A handler that parses and validates the request before admission.
chat_completions_ValidateFirst(req, raises) ==
    /\ http.pc = "idle"
    /\ IF \/ Len(split(req.model, "-")) < 2
          \/ strip(user_text(req.messages)) = <<>>
          \/ Len(user_text(req.messages)) > MAX_TEXT_LENGTH
       THEN UNCHANGED <<requests, client_requests, accepted, ret>>
       ELSE acquire(req.client_ip)
    /\ LET model_parts == split(req.model, "-")
           source_lang == IF Len(model_parts) >= 3 THEN upper(model_parts[2])
                          ELSE <<>>
           target_lang == IF Len(model_parts) >= 3 THEN upper(model_parts[3])
                          ELSE IF Len(model_parts) >= 2 THEN upper(model_parts[2])
                          ELSE <<>>
           text == user_text(req.messages)
           supports_streaming ==
               get_streaming_support(req.enable_streaming, req.accept)
       IN  IF Len(model_parts) < 2
           THEN /\ http' = Answer(req, 400, <<"Invalid model format">>)
                /\ UNCHANGED <<call, sse, status_dict, pool_vars>>
           ELSE IF text = <<>> \/ strip(text) = <<>>
           THEN /\ http' = Answer(req, 400, <<"No valid user message found">>)
                /\ UNCHANGED <<call, sse, status_dict, pool_vars>>
           ELSE IF Len(text) > MAX_TEXT_LENGTH
           THEN /\ http' = Answer(req, 400, <<"Text too long">>)
                /\ UNCHANGED <<call, sse, status_dict, pool_vars>>
           ELSE IF ret'.val # "True"
           THEN /\ http' = Answer(req, 429, <<ret'.val>>)
                /\ UNCHANGED <<call, sse, status_dict, pool_vars>>
           ELSE IF use_streaming(req.stream, supports_streaming)
           THEN /\ http' = [Answer(req, 200, <<>>) EXCEPT !.mode = "stream"]
                /\ StreamOpen(text, source_lang, target_lang)
           ELSE IF raises
           THEN /\ http' = [Answer(req, 500, <<"Internal server error">>)
                              EXCEPT !.mode = "json"]
                /\ UNCHANGED <<call, sse, status_dict, pool_vars>>
           ELSE /\ http' = [Answer(req, 0, <<>>) EXCEPT !.pc = "translating",
                                                        !.mode = "json"]
                /\ translate_single(text, source_lang, target_lang)
                /\ UNCHANGED sse

\* The handler up to its first await after admission: the rejection, the
\* StreamingResponse, or the call of translate_single.  raises: creating
\* the session raises.
chat_completions(req, raises) ==
    /\ http.pc = "idle"
    /\ acquire(req.client_ip)
    /\ LET model_parts == split(req.model, "-")
           source_lang == IF Len(model_parts) >= 3 THEN upper(model_parts[2])
                          ELSE <<>>
           target_lang == IF Len(model_parts) >= 3 THEN upper(model_parts[3])
                          ELSE IF Len(model_parts) >= 2 THEN upper(model_parts[2])
                          ELSE <<>>
           text == user_text(req.messages)
           supports_streaming ==
               get_streaming_support(req.enable_streaming, req.accept)
       IN  IF ret'.val # "True"
           THEN /\ http' = Answer(req, 429, <<ret'.val>>)
                /\ UNCHANGED <<call, sse, status_dict, pool_vars>>
           ELSE IF Len(model_parts) < 2
           THEN /\ http' = Answer(req, 400, <<"Invalid model format">>)
                /\ UNCHANGED <<call, sse, status_dict, pool_vars>>
           ELSE IF text = <<>> \/ strip(text) = <<>>
           THEN /\ http' = Answer(req, 400, <<"No valid user message found">>)
                /\ UNCHANGED <<call, sse, status_dict, pool_vars>>
           ELSE IF Len(text) > MAX_TEXT_LENGTH
           THEN /\ http' = Answer(req, 400, <<"Text too long">>)
                /\ UNCHANGED <<call, sse, status_dict, pool_vars>>
           ELSE IF use_streaming(req.stream, supports_streaming)
           THEN /\ http' = [Answer(req, 200, <<>>) EXCEPT !.mode = "stream"]
                /\ StreamOpen(text, source_lang, target_lang)
           ELSE IF raises
           THEN /\ http' = [Answer(req, 500, <<"Internal server error">>)
                              EXCEPT !.mode = "json"]
                /\ UNCHANGED <<call, sse, status_dict, pool_vars>>
           ELSE /\ http' = [Answer(req, 0, <<>>) EXCEPT !.pc = "translating",
                                                        !.mode = "json"]
                /\ translate_single(text, source_lang, target_lang)
                /\ UNCHANGED sse

\* The non-streaming answer: the envelope with the translation, or the
\* error translate_single raised.
chat_respond ==
    /\ http.pc = "translating"
    /\ call.pc \in {"returned", "raised"}
    /\ http' =
         IF call.pc = "returned"
         THEN [http EXCEPT !.pc = "responded", !.status = 200,
                           !.content = call.result,
                           !.prompt_tokens = word_count(call.text),
                           !.completion_tokens = word_count(call.result)]
         ELSE IF call.raised = "exception"
         THEN [http EXCEPT !.pc = "responded", !.status = 500,
                           !.detail = <<"Internal server error">>]
         ELSE [http EXCEPT !.pc = "responded", !.status = 503,
                           !.detail = Detail(call)]
    /\ UNCHANGED <<call, sse, status_dict, pool_vars>>

(***************************************************************************)
(* One request to POST /v1/chat/completions, of any kind, against          *)
(* upstreams that answer in any way.                                       *)
(***************************************************************************)
ChatModels == {<<"m", "-", "e", "n", "-", "z", "h">>, <<"m", "-", "e", "n", "-", "e", "n">>, <<"m">>}

ChatMessages ==
    {<<Message("user", "str", <<"h", "i", " ", "y", "o", "u">>)>>,
     <<Message("system", "str", <<"s">>), Message("user", "dict", <<"o", "k">>)>>,
     <<Message("user", "str", <<" ">>)>>,
     <<Message("user", "str", TextOfLen(MAX_TEXT_LENGTH + 1))>>}

AcceptHeaders ==
    {<<>>, EventStream, <<"*", "/", "*", ",">> \o EventStream,
     SubSeq(EventStream, 1, Len(EventStream) - 1)}

EnableStreamingValues == {<<"t", "r", "u", "e">>, <<"T", "r", "u", "e">>, <<"f", "a", "l", "s", "e">>}

ChatRequests ==
    [client_ip : {ClientX}, model : ChatModels, messages : ChatMessages,
     stream : BOOLEAN, accept : AcceptHeaders,
     enable_streaming : EnableStreamingValues]

ChatResponses ==
    {Response("status", <<>>), Response("timeout", <<>>),
     Response("string", TextOfLen(3)), Response("string", TextOfLen(101))}

ChatCompletions ==
    \E req \in ChatRequests, raises \in BOOLEAN :
        /\ chat_completions(req, raises)
        /\ UNCHANGED <<now, config_vars, max_requests, check_vars>>

ChatPost ==
    \E resp \in ChatResponses, duration \in Durations :
        /\ Post(resp, duration)
        /\ UNCHANGED <<now, config_vars, rate_vars, ret, sse, http, check_vars>>

ChatRespond ==
    /\ chat_respond
    /\ UNCHANGED <<now, config_vars, rate_vars, ret, check_vars>>

NextChat ==
    \/ ChatCompletions
    \/ DispatchSelect
    \/ DispatchReselect
    \/ ChatPost
    \/ DispatchBackoff
    \/ ChatRespond
    \/ StreamBegin
    \/ StreamReturn
    \/ StreamYield
    \/ StreamEnd

ChatConfigs == {<<UrlA>>, <<UrlA, <<" ">>>>}
ChatLimits == {0, DefaultMaxRequests}

SpecChat ==
    /\ \E env \in ChatConfigs, limit \in ChatLimits : InitWith(env, limit)
    /\ [][NextChat]_vars

\* A step in which chat_completions takes a request that passes admission
\* and validation.
Handles ==
    /\ http.pc = "idle" /\ http'.pc # "idle"
    /\ http'.status \notin {429, 400}

\* ENABLE_STREAMING is on; the Accept header names text/event-stream.
FlagOn == http'.enable_streaming \in {<<"t", "r", "u", "e">>, <<"T", "r", "u", "e">>}
AcceptsStream ==
    http'.accept \in {EventStream, <<"*", "/", "*", ",">> \o EventStream}

\* C16 as stated: a request is answered in streaming mode iff
\* ENABLE_STREAMING is on and the Accept header contains text/event-stream,
\* and in non-streaming mode in every other case.
C16_Negotiated ==
    [][ Handles =>
          /\ http'.mode = "stream" <=> (FlagOn /\ AcceptsStream)
          /\ http'.mode # "stream" => http'.mode = "json" ]_vars

\* C16, amended: a request that passes admission and validation is
\* answered in streaming mode iff its stream field is true, ENABLE_STREAMING
\* is on and the Accept header contains text/event-stream; in every other
\* case no stream is started and the request is answered once, with the
\* JSON envelope of the translation or with the error of the translation.
C16_StreamField ==
    /\ [][ Handles =>
             /\ http'.mode = "stream" <=>
                  (http'.stream /\ FlagOn /\ AcceptsStream)
             /\ http'.mode = "stream" =>
                  /\ http'.status = 200
                  /\ sse'.pc = "session"
                  /\ call' = call
             /\ http'.mode # "stream" =>
                  /\ http'.mode = "json"
                  /\ sse' = NoStream ]_vars
    /\ [](http.mode = "json" =>
            /\ sse = NoStream
            /\ http.pc = "responded" =>
                  /\ http.status \in {200, 500, 503}
                  /\ http.status = 200 <=> call.pc = "returned"
                  /\ http.status = 200 => http.content = call.result)
    /\ [][ http.pc = "responded" => http' = http ]_vars

\* A request with Accept: text/event-stream and ENABLE_STREAMING on, but
\* without stream: true, answered with the envelope of a translation.
C16_Witness ==
    /\ http.pc = "responded"
    /\ http.mode = "json"
    /\ http.status = 200
    /\ ~http.stream
    /\ http.accept = EventStream
    /\ http.enable_streaming = <<"t", "r", "u", "e">>
    /\ call.posts # <<>>
    /\ http.content = TextOfLen(3)

(***************************************************************************)
(* Claims about the failures of an attempt.                                *)
(***************************************************************************)
\* A step in which the call makes a POST that does not end the call with a
\* translation.
Fails == Attempts /\ call'.pc # "returned"

\* C21: after every failed attempt i that is not the last one, whatever the
\* kind of failure, the dispatcher sleeps min(2^i * 0.1, 2.0) seconds
\* before attempt i+1 starts; no sleep follows the last attempt.
C21_BackoffEveryFailure ==
    /\ [][ Fails =>
             IF call.attempt < call.max_retries - 1
             THEN /\ call'.pc = "backoff"
                  /\ call'.sleeps =
                       Append(call.sleeps,
                              IF (2 ^ call.attempt) * 100 < 2000
                              THEN (2 ^ call.attempt) * 100 ELSE 2000)
             ELSE /\ call'.pc = "raised"
                  /\ call'.sleeps = call.sleeps ]_vars
    /\ [][ (call.pc = "backoff" /\ call' # call) =>
             /\ call'.pc = "select"
             /\ call'.attempt = call.attempt + 1 ]_vars

\* C22: an attempt whose upstream answers 200 with data equal to the input
\* text is counted as a failure: the URL is marked unhealthy and the
\* dispatcher goes on to the next attempt instead of returning the text.
C22_EchoFails ==
    [][ (Attempts /\ call'.response = Echo(call.text)) =>
          /\ call'.pc # "returned"
          /\ ~status_dict'[call.url].available
          /\ status_dict'[call.url].consecutive_failures >= 1 ]_vars

(***************************************************************************)
(* Exceptions and except clauses.                                          *)
(***************************************************************************)
\* An except clause that takes CancelledError for an Exception.
Catches_Cancelled(clause, exc) == clause = exc \/ clause = "Exception"

\* Whether a clause catches exc.  CancelledError derives from
\* BaseException: except Exception lets it pass.
Catches(clause, exc) ==
    \/ clause = exc
    \/ clause = "Exception" /\ exc # "CancelledError"

\* The try blocks around the suspension points of the supervisor: the
\* fan-out loop of check_urls_concurrent, the body of
\* check_and_export_urls, and the two clauses of the loop of
\* periodic_url_check.
TryFanOut == [at |-> "check_urls_concurrent", clause |-> "Exception"]
TryExport == [at |-> "check_and_export_urls", clause |-> "Exception"]
TryCancelled == [at |-> "break", clause |-> "CancelledError"]
TryFailure == [at |-> "failure", clause |-> "Exception"]

\* The clause that handles exc raised under the try blocks of chain,
\* innermost first; "none" when it leaves the task.
RECURSIVE Handler(_, _)
Handler(chain, exc) ==
    IF chain = <<>> THEN "none"
    ELSE IF Catches(Head(chain).clause, exc) THEN Head(chain).at
    ELSE Handler(Tail(chain), exc)

(***************************************************************************)
(* periodic_url_check: the end of a cycle.                                 *)
(***************************************************************************)
\* int(text); IsInt: it does not raise ValueError.
IsInt(text) ==
    /\ text # <<>>
    /\ \A k \in 1..Len(text) : \E d \in 0..9 : text[k] = Digit(d)

RECURSIVE int(_)
int(text) ==
    IF text = <<>> THEN 0
    ELSE 10 * int(SubSeq(text, 1, Len(text) - 1))
           + (CHOOSE d \in 0..9 : text[Len(text)] = Digit(d))

\* await asyncio.sleep(d) begins.
Sleep(s, pc, d) ==
    [s EXCEPT !.pc = pc, !.sleeps = Append(@, d),
              !.after_cancel = IF s.cancel_called THEN @ + 1 ELSE @]

\* available_count < len(url_rotator.urls) * 0.5 chooses the shorter one
dynamic_interval(sd, pool) ==
    LET available_count == Cardinality({u \in DOMAIN sd : sd[u].available})
    IN  IF 2 * available_count < Len(pool)
        THEN Min(environ.CHECK_INTERVAL \div 2, ShortIntervalCap)
        ELSE environ.CHECK_INTERVAL

\* check_and_export_urls returned: the counter is reset and the supervisor
\* sleeps the interval.
Succeed(s, sd, pool) ==
    Sleep([s EXCEPT !.consecutive_failures = 0], "sleeping",
          dynamic_interval(sd, pool))

\* except Exception of the loop: the counter and the error sleep.
Fail(s) ==
    LET failed == [s EXCEPT !.consecutive_failures = @ + 1]
    IN  IF failed.consecutive_failures >= max_consecutive_failures
        THEN Sleep(failed, "error_sleep", environ.CHECK_INTERVAL * 2)
        ELSE Sleep(failed, "error_sleep", ErrorDelay)

\* The task is over: the loop is left, or the exception leaves the task.
Stop(s) == [s EXCEPT !.pc = "done"]

\* The supervisor once the cancellation has been raised in it.
Delivered(s) == [s EXCEPT !.cancel = FALSE]

(***************************************************************************)
(* check_and_export_urls                                                   *)
(***************************************************************************)
\* urls: the entries of the environment variable, stripped, not empty
env_urls == clean_urls(split(environ.TRANSLATION_API_URLS, ","))

\* list.sort(key=latency), stable
RECURSIVE insert_by_latency(_, _)
insert_by_latency(x, sorted) ==
    IF sorted = <<>> THEN <<x>>
    ELSE IF Head(sorted).latency <= x.latency
         THEN <<Head(sorted)>> \o insert_by_latency(x, Tail(sorted))
         ELSE <<x>> \o sorted

RECURSIVE sort_by_latency(_)
sort_by_latency(results) ==
    IF results = <<>> THEN <<>>
    ELSE insert_by_latency(results[Len(results)],
                           sort_by_latency(SubSeq(results, 1, Len(results) - 1)))

IsAvailable(r) == r.available
IsUnavailable(r) == ~r.available

\* The return value of check_urls_concurrent: the available results by
\* latency, then the others.
sorted_results(results) ==
    sort_by_latency(SelectSeq(results, IsAvailable))
      \o SelectSeq(results, IsUnavailable)

\* [endpoint["url"] for endpoint in available_endpoints]
RECURSIVE urls_of(_)
urls_of(endpoints) ==
    IF endpoints = <<>> THEN <<>>
    ELSE <<Head(endpoints).url>> \o urls_of(Tail(endpoints))

\* An exception raised in the body of check_and_export_urls or in the
\* loop around it, with s the supervisor and w the sweep at that point.
Raise(chain, exc, s, w) ==
    LET at == Handler(chain, exc)
    IN  /\ sweep' = IF at = "check_and_export_urls"
                    THEN [w EXCEPT !.pc = "idle", !.status = 500]
                    ELSE w
        /\ supervisor' =
             CASE at = "check_and_export_urls" -> Succeed(s, status_dict, urls)
               [] at = "failure" -> Fail(s)
               [] OTHER -> Stop(s)
        /\ UNCHANGED <<pool_vars, environ>>

\* A sweep that replaces the pool whatever the number of available URLs.
export_urls_NoMinimum(s, w, results) ==
    LET available_endpoints == sort_by_latency(SelectSeq(results, IsAvailable))
        new_urls == urls_of(available_endpoints)
        auto == lower(environ.AUTO_UPDATE_URLS) = <<"t", "r", "u", "e">>
    IN  IF auto /\ ~IsInt(environ.MIN_AVAILABLE_URLS)
        THEN Raise(<<TryExport, TryCancelled, TryFailure>>, "ValueError", s,
                   [w EXCEPT !.returned = results])
        ELSE /\ IF auto
                THEN /\ update_urls(new_urls)
                     /\ environ' = [environ EXCEPT
                                      !.TRANSLATION_API_URLS = join(",", new_urls)]
                ELSE UNCHANGED <<pool_vars, environ>>
             /\ sweep' = [w EXCEPT !.pc = "idle", !.status = 200,
                                   !.returned = results,
                                   !.updated_urls = auto]
             /\ supervisor' = Succeed(s, status_dict, urls')

\* check_and_export_urls from the return of check_urls_concurrent, and the
\* supervisor up to its sleep: the pool and the environment variable are
\* replaced by the available URLs when the settings say so.
export_urls(s, w, results) ==
    LET available_endpoints == sort_by_latency(SelectSeq(results, IsAvailable))
        new_urls == urls_of(available_endpoints)
        auto == lower(environ.AUTO_UPDATE_URLS) = <<"t", "r", "u", "e">>
    IN  IF auto /\ ~IsInt(environ.MIN_AVAILABLE_URLS)
        THEN Raise(<<TryExport, TryCancelled, TryFailure>>, "ValueError", s,
                   [w EXCEPT !.returned = results])
        ELSE LET updated_urls ==
                     /\ auto
                     /\ Len(available_endpoints) >= int(environ.MIN_AVAILABLE_URLS)
             IN  /\ IF updated_urls
                    THEN /\ update_urls(new_urls)
                         /\ environ' = [environ EXCEPT
                                          !.TRANSLATION_API_URLS =
                                              join(",", new_urls)]
                    ELSE UNCHANGED <<pool_vars, environ>>
                 /\ sweep' = [w EXCEPT !.pc = "idle", !.status = 200,
                                       !.returned = results,
                                       !.updated_urls = updated_urls]
                 /\ supervisor' = Succeed(s, status_dict, urls')

(***************************************************************************)
(* check_urls_concurrent                                                   *)
(***************************************************************************)
\* The value of TEST_TEXT in the environment.
TEST_TEXT == <<"H", "i">>

\* asyncio.Semaphore(min(self.max_workers, len(urls)))
semaphore(w) == Min(environ.MAX_WORKERS, Len(w.urls))

\* The probes of the sweep that are in flight.
InFlight(w) == {i \in DOMAIN w.task : w.task[i] = "posting"}

\* task.cancel() for every task that is not done
cancel_tasks(w) ==
    [w EXCEPT !.task = [i \in DOMAIN w.task |->
                          IF w.task[i] \in {"pending", "posting"}
                          THEN "cancelled" ELSE w.task[i]]]

\* The sweep begins: the tasks are created.
check_urls_concurrent(w, list) ==
    [NoSweep EXCEPT !.pc = "collecting", !.id = w.id + 1,
                    !.session_pool = w.session_pool, !.urls = list,
                    !.task = [i \in 1..Len(list) |-> "pending"],
                    !.value = [i \in 1..Len(list) |-> <<>>],
                    !.posts = [i \in 1..Len(list) |-> 0],
                    !.updates = [i \in 1..Len(list) |-> 0]]

\* A semaphore that lets every task in.
check_with_semaphore_Unbounded(i, raises) ==
    /\ i \in DOMAIN sweep.task
    /\ sweep.task[i] = "pending"
    /\ \A j \in 1..(i - 1) : sweep.task[j] # "pending"
    /\ raises => ~sweep.session_pool
    /\ sweep' =
         IF raises
         THEN [sweep EXCEPT !.task[i] = "raised", !.finished = Append(@, i)]
         ELSE [sweep EXCEPT !.task[i] = "posting", !.session_pool = TRUE,
                            !.posts[i] = @ + 1]

\* A task takes the semaphore, in the order of the list, gets the session
\* and sends its POST.  raises: creating the session raises, and the task
\* ends with the exception.
check_with_semaphore(i, raises) ==
    /\ i \in DOMAIN sweep.task
    /\ sweep.task[i] = "pending"
    /\ \A j \in 1..(i - 1) : sweep.task[j] # "pending"
    /\ Cardinality(InFlight(sweep)) < semaphore(sweep)
    /\ raises => ~sweep.session_pool
    /\ sweep' =
         IF raises
         THEN [sweep EXCEPT !.task[i] = "raised", !.finished = Append(@, i)]
         ELSE [sweep EXCEPT !.task[i] = "posting", !.session_pool = TRUE,
                            !.posts[i] = @ + 1]

\* The answer to the POST of a task: check_url classifies it, updates the
\* record and returns the result; the semaphore is released.
probe_done(i, resp, latency) ==
    /\ i \in DOMAIN sweep.task
    /\ sweep.task[i] = "posting"
    /\ check_url(sweep.urls[i], TEST_TEXT, resp, latency)
    /\ sweep' = [sweep EXCEPT !.task[i] = "done", !.value[i] = ret'.val,
                              !.updates[i] = @ + 1,
                              !.finished = Append(@, i)]

\* for coro in asyncio.as_completed(tasks): the next task that ended.  Its
\* result is collected; its exception ends the loop and cancels the tasks
\* that are not done.  After the loop the sweep returns and
\* check_and_export_urls goes on.
collect ==
    /\ supervisor.pc = "probing"
    /\ ~supervisor.cancel
    /\ sweep.finished # <<>>
    /\ LET i == Head(sweep.finished)
           next == [sweep EXCEPT !.finished = Tail(@)]
       IN  IF sweep.task[i] = "done"
           THEN LET w == [next EXCEPT !.results = Append(@, sweep.value[i])]
                IN  IF Len(w.results) = Len(w.urls)
                    THEN export_urls(supervisor, w, sorted_results(w.results))
                    ELSE /\ sweep' = w
                         /\ UNCHANGED <<supervisor, pool_vars, environ>>
           ELSE IF Handler(<<TryFanOut, TryExport, TryCancelled, TryFailure>>,
                           "Exception") = "check_urls_concurrent"
                THEN export_urls(supervisor,
                                 cancel_tasks([next EXCEPT !.error = "Exception"]),
                                 sorted_results(next.results))
                ELSE Raise(<<TryExport, TryCancelled, TryFailure>>, "Exception",
                           supervisor, next)

(***************************************************************************)
(* periodic_url_check                                                      *)
(***************************************************************************)
\* A sleep of the supervisor is over: the next cycle begins.  With no URL
\* in the environment check_and_export_urls returns at once.
wake ==
    /\ supervisor.pc \in {"initial_delay", "sleeping", "error_sleep"}
    /\ ~supervisor.cancel
    /\ LET s == IF /\ supervisor.pc = "error_sleep"
                   /\ supervisor.consecutive_failures >= max_consecutive_failures
                THEN [supervisor EXCEPT !.consecutive_failures = 0]
                ELSE supervisor
       IN  IF env_urls = <<>>
           THEN /\ sweep' = [NoSweep EXCEPT !.id = sweep.id + 1,
                                            !.session_pool = sweep.session_pool,
                                            !.status = 400]
                /\ supervisor' = Succeed(s, status_dict, urls)
           ELSE /\ sweep' = check_urls_concurrent(sweep, env_urls)
                /\ supervisor' = [s EXCEPT !.pc = "probing"]
    /\ UNCHANGED <<pool_vars, environ>>

\* check_task.cancel(): the signal handler or the shutdown of lifespan
cancel ==
    /\ supervisor.pc # "done"
    /\ ~supervisor.cancel
    /\ supervisor' = [supervisor EXCEPT !.cancel = TRUE,
                                        !.cancel_called = TRUE]
    /\ UNCHANGED <<sweep, pool_vars, environ>>

\* CancelledError is raised in the supervisor where it is suspended: in the
\* initial delay and in the error sleep outside every try block, in the
\* interval sleep inside the loop's, in the sweep inside all of them.
cancelled ==
    /\ supervisor.cancel
    /\ supervisor.pc # "done"
    /\ LET s == Delivered(supervisor)
       IN  CASE supervisor.pc = "probing" ->
                  IF Handler(<<TryFanOut, TryExport, TryCancelled, TryFailure>>,
                             "CancelledError") = "check_urls_concurrent"
                  THEN export_urls(s, cancel_tasks([sweep EXCEPT
                                                      !.error = "CancelledError"]),
                                   sorted_results(sweep.results))
                  ELSE Raise(<<TryExport, TryCancelled, TryFailure>>,
                             "CancelledError", s, sweep)
             [] supervisor.pc = "sleeping" ->
                  Raise(<<TryCancelled, TryFailure>>, "CancelledError", s, sweep)
             [] OTHER -> Raise(<<>>, "CancelledError", s, sweep)

(***************************************************************************)
(* The supervisor with its sweeps, against upstreams that answer or fail,  *)
(* under several settings, cancelled at any moment.                        *)
(***************************************************************************)
Setting(auto, min, interval, workers) ==
    [AUTO_UPDATE_URLS |-> auto, MIN_AVAILABLE_URLS |-> min,
     CHECK_INTERVAL |-> interval, MAX_WORKERS |-> workers]

\* The settings explored: the defaults; one worker and a minimum of one; a
\* minimum of zero and an interval whose half is below the cap; a minimum
\* that is no number; no auto-update.
SweepSettings ==
    {DefaultSettings,
     Setting(<<"T", "r", "u", "e">>, <<"1">>, DefaultCheckInterval, 1),
     Setting(<<"t", "r", "u", "e">>, <<"0">>, 100, 2),
     Setting(<<"t", "r", "u", "e">>, <<"x">>, DefaultCheckInterval, 2),
     Setting(<<"f", "a", "l", "s", "e">>, <<"2">>, 100, 2)}

SweepConfigs == {<<UrlA, UrlB>>, <<UrlA, UrlB, UrlC>>}

SweepResponses ==
    {ProbeResponse("json", Json("string", <<"O", "k">>, 0)),
     ProbeResponse("status", NoData)}

SweepLatencies == {995, 1000}

SweepFrame == <<now, config_vars, rate_vars, request_vars>>

SupervisorWake ==
    /\ sweep.id < MaxSweeps
    /\ wake
    /\ UNCHANGED <<SweepFrame, status_dict, ret>>

SweepStart ==
    \E i \in DOMAIN sweep.task, raises \in BOOLEAN :
        /\ check_with_semaphore(i, raises)
        /\ UNCHANGED <<SweepFrame, status_dict, ret, pool_vars, environ,
                       supervisor>>

SweepProbe ==
    \E i \in DOMAIN sweep.task, resp \in SweepResponses,
       latency \in SweepLatencies :
        /\ probe_done(i, resp, latency)
        /\ UNCHANGED <<SweepFrame, pool_vars, environ, supervisor>>

SweepCollect ==
    /\ collect
    /\ UNCHANGED <<SweepFrame, status_dict, ret>>

SupervisorCancel ==
    /\ cancel
    /\ UNCHANGED <<SweepFrame, status_dict, ret>>

SupervisorCancelled ==
    /\ cancelled
    /\ UNCHANGED <<SweepFrame, status_dict, ret>>

NextSweep ==
    \/ SupervisorWake
    \/ SweepStart
    \/ SweepProbe
    \/ SweepCollect
    \/ SupervisorCancel
    \/ SupervisorCancelled

SpecSweep ==
    /\ \E env \in SweepConfigs, settings \in SweepSettings :
          InitEnv(env, DefaultMaxRequests, settings)
    /\ [][NextSweep]_vars

\* The event loop runs every task that can run: the supervisor gets the
\* CancelledError that cancel() scheduled.  Three URLs with two workers.
LiveSettings ==
    {Setting(<<"t", "r", "u", "e">>, <<"2">>, DefaultCheckInterval, 2)}

SpecSweepLive ==
    /\ \E settings \in LiveSettings :
          InitEnv(<<UrlA, UrlB, UrlC>>, DefaultMaxRequests, settings)
    /\ [][NextSweep]_vars
    /\ WF_vars(SupervisorCancelled)

(***************************************************************************)
(* Claims about a sweep.                                                   *)
(***************************************************************************)
\* The sweep has returned to check_and_export_urls.
Swept == sweep.pc = "idle" /\ sweep.id > 0 /\ sweep.urls # <<>>

\* The entries of the list whose URL is url; the results for url.
EntriesOf(url) == {i \in DOMAIN sweep.urls : sweep.urls[i] = url}
ResultsOf(url) ==
    {k \in DOMAIN sweep.returned : sweep.returned[k].url = url}

\* The bound on the probes in flight, as the claim states it.
WorkerBound ==
    IF environ.MAX_WORKERS < Len(sweep.urls) THEN environ.MAX_WORKERS
    ELSE Len(sweep.urls)

\* C23 as stated: during a sweep at most min(MAX_WORKERS, len(urls)) of its
\* probes are in flight, every URL of the list is probed exactly once and
\* each probe applies exactly one HealthState update; without a fan-out
\* error the sweep returns exactly one result per URL.
C23_EveryUrlProbed ==
    /\ Cardinality({i \in DOMAIN sweep.task : sweep.task[i] = "posting"})
         <= WorkerBound
    /\ Swept =>
         /\ \A i \in DOMAIN sweep.urls :
               sweep.posts[i] = 1 /\ sweep.updates[i] = 1
         /\ sweep.error = "None" =>
               \A u \in Range(sweep.urls) :
                  Cardinality(ResultsOf(u)) = Cardinality(EntriesOf(u))

\* C23, amended: during a sweep at most min(MAX_WORKERS, len(urls)) of its
\* probes are in flight, every URL of the list is probed at most once and
\* each probe applies at most one HealthState update; when no fan-out error
\* occurs, every URL of the list is probed exactly once, each probe applies
\* exactly one update, and the sweep returns exactly one result per URL.
C23_Sweep ==
    /\ [](/\ Cardinality({i \in DOMAIN sweep.task : sweep.task[i] = "posting"})
               <= WorkerBound
          /\ \A i \in DOMAIN sweep.urls :
                /\ sweep.posts[i] <= 1
                /\ sweep.updates[i] <= sweep.posts[i]
                /\ sweep.task[i] = "done" =>
                      sweep.posts[i] = 1 /\ sweep.updates[i] = 1
          /\ (Swept /\ sweep.error = "None") =>
                /\ \A i \in DOMAIN sweep.urls :
                      sweep.posts[i] = 1 /\ sweep.updates[i] = 1
                /\ Len(sweep.returned) = Len(sweep.urls)
                /\ \A u \in Range(sweep.urls) :
                      Cardinality(ResultsOf(u)) = Cardinality(EntriesOf(u)))
    /\ [][ status_dict' # status_dict =>
             \E i \in DOMAIN sweep.urls :
                /\ sweep'.updates = [sweep.updates EXCEPT ![i] = @ + 1]
                /\ sweep.task[i] = "posting"
                /\ \A u \in DOMAIN status_dict \ {sweep.urls[i]} :
                      status_dict'[u] = status_dict[u]
                /\ status_dict'[sweep.urls[i]].total_checks =
                     StatusGet(status_dict, sweep.urls[i], "total_checks", 0) + 1
         ]_vars

\* A sweep over three URLs with two workers returned three results, two of
\* them available, after two probes had been in flight together.
C23_Witness ==
    /\ Swept
    /\ sweep.error = "None"
    /\ Len(sweep.urls) = 3
    /\ environ.MAX_WORKERS = 2
    /\ Len(sweep.returned) = 3
    /\ sweep.returned[1].available
    /\ sweep.returned[2].available
    /\ ~sweep.returned[3].available
    /\ sweep.returned[1].latency < sweep.returned[2].latency

(***************************************************************************)
(* Claims about the end of a sweep.                                        *)
(***************************************************************************)
\* A step in which the sweep returns and check_and_export_urls runs to its
\* end.
EndsSweep == sweep.pc = "collecting" /\ sweep'.pc = "idle"

\* The URLs the sweep found available.
FoundAvailable ==
    {sweep'.returned[k].url :
       k \in {j \in DOMAIN sweep'.returned : sweep'.returned[j].available}}

\* The auto-update flag is on; MIN_AVAILABLE_URLS is a number.
AutoUpdate ==
    environ.AUTO_UPDATE_URLS \in {<<"t", "r", "u", "e">>, <<"T", "r", "u", "e">>}
MinAvailable ==
    CASE environ.MIN_AVAILABLE_URLS = <<"0">> -> 0
      [] environ.MIN_AVAILABLE_URLS = <<"1">> -> 1
      [] environ.MIN_AVAILABLE_URLS = <<"2">> -> 2
      [] environ.MIN_AVAILABLE_URLS = <<"3">> -> 3
      [] OTHER -> None

\* The sweep replaces the pool by the URLs found available; it leaves the
\* pool and its entries as they are.
Replaces ==
    /\ Range(urls') = FoundAvailable
    /\ DOMAIN request_counts' = FoundAvailable
    /\ DOMAIN last_used' = FoundAvailable
    /\ DOMAIN url_weights' = FoundAvailable
Keeps == UNCHANGED <<urls, request_counts, last_used, url_weights>>

\* C25 as stated: after a sweep the pool is replaced by exactly the URLs
\* found available iff the auto-update flag is enabled and their number is
\* >= MIN_AVAILABLE_URLS; otherwise the sweep leaves the pool and its
\* entries unchanged.
C25_ReplaceIffMinimum ==
    [][ EndsSweep =>
          IF /\ AutoUpdate
             /\ MinAvailable # None
             /\ Cardinality({k \in DOMAIN sweep'.returned :
                               sweep'.returned[k].available}) >= MinAvailable
          THEN Replaces
          ELSE Keeps ]_vars

\* C25, amended: after a sweep the pool is replaced by exactly the URLs
\* found available iff the auto-update flag is enabled, their number is
\* >= MIN_AVAILABLE_URLS and at least one URL was found available;
\* otherwise the sweep leaves the pool and its entries unchanged.
C25_ReplaceIfAny ==
    [][ EndsSweep =>
          IF /\ AutoUpdate
             /\ MinAvailable # None
             /\ Cardinality({k \in DOMAIN sweep'.returned :
                               sweep'.returned[k].available}) >= MinAvailable
             /\ FoundAvailable # {}
          THEN Replaces
          ELSE Keeps ]_vars

\* A sweep over three URLs found two available, in the order b, a, and
\* made them the pool.
C25_Witness ==
    /\ Swept
    /\ Len(sweep.urls) = 3
    /\ sweep.updated_urls
    /\ urls = <<UrlB, UrlA>>
    /\ DOMAIN request_counts = {UrlA, UrlB}
    /\ sweep.id = 1

\* C27: in every cycle of the supervisor the URLs probed are the full list
\* configured at start-up, whatever pool replacements earlier cycles made.
C27_FullListProbed ==
    sweep.id > 0 => Range(sweep.urls) = Range(clean_urls(TRANSLATION_API_URLS))

\* A step in which a sweep fails: its fan-out loop ends with an error, or
\* check_and_export_urls ends with an exception.
FailsSweep ==
    /\ EndsSweep
    /\ sweep'.error # "None" \/ sweep'.status = 500

\* C28: when a sweep fails with an error other than cancellation, the
\* supervisor increments its consecutive-failure counter and sleeps 60 s,
\* on the 5th consecutive failure 2 * CHECK_INTERVAL with the counter reset
\* to 0; a successful sweep resets the counter to 0; in every case the
\* loop continues with another sweep.
C28_FailureCounted ==
    [][ (FailsSweep /\ sweep'.error # "CancelledError") =>
          /\ supervisor'.pc \in {"sleeping", "error_sleep"}
          /\ IF supervisor.consecutive_failures = 4
             THEN /\ supervisor'.sleeps =
                       Append(supervisor.sleeps, 2 * environ.CHECK_INTERVAL)
                  /\ supervisor'.consecutive_failures \in {0, 5}
             ELSE /\ supervisor'.sleeps = Append(supervisor.sleeps, 60)
                  /\ supervisor'.consecutive_failures =
                       supervisor.consecutive_failures + 1 ]_vars

(***************************************************************************)
(* Claims about the cancellation of the supervisor.                        *)
(***************************************************************************)
\* C26: if the supervisor task is cancelled in any of its states, it
\* terminates at its next suspension point: it eventually stops, and it
\* starts no new sweep and no new sleep after the cancellation.
C26_CancelStops ==
    /\ supervisor.cancel ~> supervisor.pc = "done"
    /\ [](supervisor.after_cancel = 0)
    /\ [][ supervisor.cancel_called =>
             /\ sweep'.id = sweep.id
             /\ supervisor'.sleeps = supervisor.sleeps
             /\ supervisor' # supervisor =>
                  supervisor.cancel /\ supervisor'.pc = "done" ]_vars

\* The supervisor stopped in its second sweep, cancelled while two probes
\* were in flight and one result was collected.
C26_Witness ==
    /\ supervisor.pc = "done"
    /\ supervisor.cancel_called
    /\ sweep.id = 2
    /\ sweep.pc = "collecting"
    /\ Len(sweep.results) = 1
    /\ Cardinality({i \in DOMAIN sweep.task : sweep.task[i] = "posting"}) = 2

(***************************************************************************)
(* Invariants of HealthState and of the pool.                              *)
(***************************************************************************)
\* C29: for every recorded URL, available iff consecutive_failures = 0,
\* and available implies a latency and a success_rate of 1; hence every
\* URL that get_next_url scores has a latency and a non-zero denominator
\* success_rate * weight, and the score expression never raises.
C29_ScoreDefined ==
    /\ \A u \in DOMAIN status_dict :
          LET r == status_dict[u]
          IN  /\ r.available <=> r.consecutive_failures = 0
              /\ r.available =>
                    /\ r.latency # None
                    /\ r.success_rate.num = r.success_rate.den
                    /\ r.success_rate.den > 0
    /\ \A u \in Range(urls) :
          (u \in DOMAIN status_dict => status_dict[u].available) =>
             /\ u \in DOMAIN status_dict =>
                   /\ status_dict[u].latency # None
                   /\ status_dict[u].success_rate.num * url_weights[u] # 0
             /\ url_weights[u] # 0
    /\ \A o \in NextUrlOutcomes : o.val # "exception"

\* Of a pool of two, one URL is recorded available after an earlier
\* failure, the other unavailable.
C29_Witness ==
    \E u, v \in Range(urls) :
        /\ u \in DOMAIN status_dict /\ v \in DOMAIN status_dict
        /\ status_dict[u].available
        /\ status_dict[u].total_checks >= 2
        /\ ~status_dict[v].available
        /\ status_dict[v].latency = None
        /\ \E o \in NextUrlOutcomes : o.val = "scored" /\ o.url = u

\* C30: in every state of the pool manager the active URL list is not
\* empty and request_counts, last_used and url_weights have exactly the
\* URLs of the list as keys; update_urls with a list that is empty after
\* cleaning changes nothing.
C30_PoolKeys ==
    /\ [](/\ urls # <<>>
          /\ DOMAIN request_counts = Range(urls)
          /\ DOMAIN last_used = Range(urls)
          /\ DOMAIN url_weights = Range(urls))
    /\ [][ (ret'.op = "update_urls" /\ ret'.bit # ret.bit
              /\ ret'.val = "ignored") =>
             UNCHANGED <<urls, request_counts, last_used, url_weights>> ]_vars

\* update_urls was called with nothing but blanks on a pool that had been
\* replaced and used before.
C30_Witness ==
    /\ ret.op = "update_urls" /\ ret.val = "ignored"
    /\ urls = <<UrlC, UrlB>>
    /\ request_counts[UrlB] > 0

(***************************************************************************)
(* The supervisor beside one translation: a call of translate_single runs  *)
(* while the sweeps probe and replace the pool.                            *)
(***************************************************************************)
SuperviseSettings ==
    {Setting(<<"t", "r", "u", "e">>, <<"1">>, DefaultCheckInterval, 2)}

NextSupervise ==
    \/ SupervisorWake
    \/ SweepStart
    \/ SweepProbe
    \/ SweepCollect
    \/ RetryBegin
    \/ DispatchSelect
    \/ DispatchReselect
    \/ RetryPost
    \/ DispatchBackoff

SpecSupervise ==
    /\ \E settings \in SuperviseSettings :
          InitEnv(<<UrlA, UrlB>>, DefaultMaxRequests, settings)
    /\ [][NextSupervise]_vars

\* The entries of the pool whose URL is marked available.
AvailableInPool(pool, sd) ==
    {i \in DOMAIN pool : pool[i] \in DOMAIN sd /\ sd[pool[i]].available}

\* C24: after each completed sweep the supervisor sleeps
\* min(CHECK_INTERVAL/2, 120) seconds iff fewer than 50% of the upstreams
\* of the active pool are marked available, and CHECK_INTERVAL seconds
\* otherwise; records of URLs that are no longer in the pool do not
\* influence the choice.
C24_IntervalOfPool ==
    [][ (supervisor'.pc = "sleeping" /\ supervisor'.sleeps # supervisor.sleeps) =>
          supervisor'.sleeps[Len(supervisor'.sleeps)] =
             IF 2 * Cardinality(AvailableInPool(urls', status_dict')) < Len(urls')
             THEN (IF environ.CHECK_INTERVAL \div 2 < 120
                   THEN environ.CHECK_INTERVAL \div 2 ELSE 120)
             ELSE environ.CHECK_INTERVAL ]_vars

(***************************************************************************)
(* Claims about the availability filter of get_next_url.                   *)
(***************************************************************************)
\* The record of url says available = false.
Unavailable(url) ==
    /\ url \in DOMAIN status_dict
    /\ ~status_dict[url].available

\* C31: get_next_url never returns a URL whose record has available = false
\* unless no URL of the pool passes the filter (fallback): a URL whose most
\* recent update was a failure cannot be the URL returned while some URL of
\* the pool passes the filter, that is until a later update marks it
\* available or every URL of the pool is unavailable.
C31_NoUnavailableUrl ==
    /\ [][ \A url \in URLs :
             (Selects(url) /\ Unavailable(url)) =>
                \A u \in Range(urls) : ~Survives(u) ]_vars
    /\ []( \A url \in Range(urls) :
              (Unavailable(url) /\ \E u \in Range(urls) : Survives(u)) =>
                 url \notin {o.url : o \in NextUrlOutcomes} )
    /\ []( \A u \in Range(urls) : Survives(u) <=> ~Unavailable(u) )

\* A URL was selected just now while another URL of the pool, whose one
\* update was a failure, is marked unavailable with fewer than 6 failures.
C31_Witness ==
    \E u, v \in Range(urls) :
        /\ Unavailable(v)
        /\ status_dict[v].consecutive_failures = 1
        /\ status_dict[v].total_checks = 1
        /\ Survives(u)
        /\ request_counts[u] > 0 /\ last_used[u] = now
        /\ request_counts[v] = 0
        /\ status_dict[v].last_check < last_used[u]

(***************************************************************************)
(* POST /v1/chat/completions, one request after the other: a client sends  *)
(* requests of every kind, at once or after a pause, under a limit that    *)
(* rejects every request and one that rejects the client's second request  *)
(* of a window.                                                            *)
(***************************************************************************)
AdmitLimits == {0, 4}

AdmitRequests ==
    [client_ip : {ClientX}, model : ChatModels,
     messages : {<<Message("user", "str", <<"h", "i">>)>>,
                 <<Message("user", "str", <<" ">>)>>},
     stream : BOOLEAN, accept : {EventStream},
     enable_streaming : {<<"t", "r", "u", "e">>}]

AdmitResponses ==
    {Response("status", <<>>), Response("timeout", <<>>),
     Response("string", TextOfLen(3))}

\* The request has been answered: the exception or the JSON response has
\* left the handler, the generator of a StreamingResponse has ended.
Answered ==
    /\ http.pc = "responded"
    /\ http.mode = "stream" => sse.pc = "closed"

\* The next request reaches the handler, at once or after a pause.
AdmitArrive ==
    \E d \in {0, AdmitTickStep} :
        /\ Answered
        /\ now + d <= StartTime + MaxTicksAdmit * AdmitTickStep
        /\ now' = now + d
        /\ http' = NoHttp
        /\ sse' = NoStream
        /\ UNCHANGED <<status_dict, pool_vars, config_vars, rate_vars, call,
                       check_vars, ret>>

AdmitCompletions ==
    \E req \in AdmitRequests, raises \in BOOLEAN :
        /\ chat_completions(req, raises)
        /\ UNCHANGED <<now, config_vars, max_requests, check_vars>>

AdmitPost ==
    \E resp \in AdmitResponses, duration \in Durations :
        /\ Post(resp, duration)
        /\ UNCHANGED <<now, config_vars, rate_vars, ret, sse, http, check_vars>>

NextAdmit ==
    \/ AdmitArrive
    \/ AdmitCompletions
    \/ DispatchSelect
    \/ DispatchReselect
    \/ AdmitPost
    \/ DispatchBackoff
    \/ ChatRespond
    \/ StreamBegin
    \/ StreamReturn
    \/ StreamYield
    \/ StreamEnd

SpecAdmit ==
    /\ \E limit \in AdmitLimits : InitWith(<<UrlA, UrlB>>, limit)
    /\ [][NextAdmit]_vars

\* The step in which the handler takes a request.
Takes == http.pc = "idle" /\ http'.pc # "idle"

\* The entries of a window that are less than 60 seconds old.
Kept(window) == SelectSeq(window, LAMBDA req_time : now - req_time < 60)

\* The step appends the time of the request to the global window and to
\* the window of its client.
Stamps ==
    /\ ret'.op = "acquire"
    /\ requests' = Append(Kept(requests), now)
    /\ ret'.arg \in DOMAIN client_requests'
    /\ client_requests'[ret'.arg] =
          Append(Kept(DictGet(client_requests, ret'.arg, <<>>)), now)

\* The request taken names the same source and target language.
SameLanguage ==
    \/ /\ call'.id = call.id + 1
       /\ call'.source_lang = call'.target_lang
    \/ /\ sse'.pc = "session"
       /\ sse'.source_lang = sse'.target_lang

\* The request in hand was served without a call of an upstream.
ServedLocally ==
    /\ Answered /\ http.status = 200
    /\ call.pc = "returned" /\ call.source_lang = call.target_lang

\* C32: rate-limit admission happens before model parsing, text validation
\* and dispatch: a request answered with 400 and a same-language request
\* served without upstream call have each appended their timestamp to the
\* global and per-client windows, and a request rejected with 429 causes no
\* URL selection, no upstream POST and no HealthState change.
C32_AdmissionFirst ==
    /\ [][ (Takes /\ http'.status = 400) => Stamps ]_vars
    /\ [][ (Takes /\ http'.status # 429 /\ SameLanguage) => Stamps ]_vars
    /\ []( (http.status = 400 \/ ServedLocally) =>
             /\ requests # <<>> /\ requests[Len(requests)] = now
             /\ client_requests[ret.arg] # <<>>
             /\ client_requests[ret.arg][Len(client_requests[ret.arg])] = now )
    /\ []( ServedLocally => call.posts = <<>> )
    /\ [][ (http.status = 429 \/ http'.status = 429) =>
             UNCHANGED <<status_dict, pool_vars, call>> ]_vars

\* A request was answered with 400 a minute after a request of the same
\* client was dispatched: both were admitted, and the window holds the
\* later one alone.
C32_Witness ==
    /\ http.status = 400
    /\ now > StartTime
    /\ accepted[ret.arg] = <<StartTime, now>>
    /\ client_requests[ret.arg] = <<now>>
    /\ call.posts # <<>>

(***************************************************************************)
(* HealthState under probes and dispatch attempts that interleave: the     *)
(* sweep of the supervisor probes the URLs while translate_single posts    *)
(* to them, and every order of the completions is taken.                   *)
(***************************************************************************)
MutexWake ==
    /\ sweep.id < MaxSweepsMutex
    /\ wake
    /\ UNCHANGED <<SweepFrame, status_dict, ret>>

\* The one translation of a behaviour starts, at any moment.
MutexBegin ==
    /\ call.pc = "idle"
    /\ translate_single(TextOfLen(2), <<>>, <<"E", "N">>)
    /\ UNCHANGED <<now, config_vars, rate_vars, ret, sse, http, check_vars>>

NextMutex ==
    \/ MutexWake
    \/ SweepStart
    \/ SweepProbe
    \/ SweepCollect
    \/ MutexBegin
    \/ DispatchSelect
    \/ DispatchReselect
    \/ RetryPost
    \/ DispatchBackoff

SpecMutex ==
    /\ \E settings \in SuperviseSettings :
          InitEnv(<<UrlA, UrlB>>, DefaultMaxRequests, settings)
    /\ [][NextMutex]_vars

\* The probes of url that complete in this step: check_url has returned.
ProbesDone(url) ==
    {i \in DOMAIN sweep.task :
        /\ sweep.urls[i] = url
        /\ sweep.task[i] = "posting"
        /\ sweep'.id = sweep.id /\ sweep'.task[i] = "done"}

\* The dispatch attempts on url that complete in this step.
AttemptsDone(url) == IF Attempts /\ call.url = url THEN 1 ELSE 0

\* The record of url after the step is the record before it with one
\* update applied as a whole.
WholeUpdate(url) ==
    LET new == status_dict'[url]
        before(key, default) == StatusGet(status_dict, url, key, default)
    IN  /\ new.available \in BOOLEAN
        /\ new.last_check = now
        /\ new.total_checks = before("total_checks", 0) + 1
        /\ new.consecutive_failures =
              IF new.available THEN 0 ELSE before("consecutive_failures", 0) + 1
        /\ new.last_success =
              IF new.available THEN now ELSE before("last_success", None)
        /\ new.latency = None <=> ~new.available
        /\ new.response_length = None <=> ~new.available
        /\ new.success_rate =
              [num |-> new.total_checks - new.consecutive_failures,
               den |-> new.total_checks]

\* C33: under every interleaving of probes and dispatch attempts that
\* update the same URL each HealthState update is applied atomically: a
\* step changes the record of a URL iff one probe or one attempt on it
\* completes, the change is one whole update, never a part of one, and
\* total_checks of a URL grows by one with each update completed for it,
\* from no record before the first.
C33_AtomicUpdates ==
    /\ [][ \A url \in URLs :
             LET done == Cardinality(ProbesDone(url)) + AttemptsDone(url)
             IN  /\ done <= 1
                 /\ StatusGet(status_dict', url, "total_checks", 0) =
                       StatusGet(status_dict, url, "total_checks", 0) + done
                 /\ done = 0 =>
                       /\ url \in DOMAIN status_dict' <=> url \in DOMAIN status_dict
                       /\ url \in DOMAIN status_dict =>
                             status_dict'[url] = status_dict[url]
                 /\ done = 1 =>
                       /\ url \in DOMAIN status_dict'
                       /\ WholeUpdate(url) ]_vars
    /\ []( (sweep.id = 0 /\ call.id = 0) => DOMAIN status_dict = {} )

\* With a probe of another URL in flight and the dispatcher between two
\* attempts, a URL has been updated twice: by its probe of this sweep and
\* by an attempt of the call.
C33_Witness ==
    \E i, j \in DOMAIN sweep.task :
        /\ sweep.id = 1
        /\ sweep.task[i] = "done" /\ sweep.task[j] = "posting"
        /\ call.pc = "select" /\ Len(call.posts) = 1
        /\ call.posts[1] = sweep.urls[i]
        /\ status_dict[sweep.urls[i]].total_checks = 2

(***************************************************************************)
(* The dispatcher to its end: every await of translate_single returns.     *)
(* The lock of get_next_url is free at every await, asyncio.sleep ends,    *)
(* and session.post ends with a response, an error or the timeout of the   *)
(* session.  A pool of two URLs, and a pool of one URL under a             *)
(* configuration of six entries, five of them blank.                       *)
(***************************************************************************)
TerminateConfigs ==
    {<<UrlA, UrlB>>, <<UrlA, <<" ">>, <<" ">>, <<" ">>, <<" ">>, <<" ">>>>}

SpecTerminate ==
    /\ \E env \in TerminateConfigs : InitWith(env, DefaultMaxRequests)
    /\ [][NextDispatch]_vars
    /\ WF_vars(DispatchSelect)
    /\ WF_vars(DispatchReselect)
    /\ WF_vars(DispatchPost)
    /\ WF_vars(DispatchBackoff)

\* The call is in its retry loop.
Running == call.pc \in {"select", "reselect", "post", "backoff"}

\* A step that calls get_next_url.
SelectsAgain == call.pc \in {"select", "reselect"} /\ call' # call

\* C34: every call of translate_single terminates, returning a translation
\* or raising 503: it makes at most max_retries <= 5 upstream POSTs and at
\* most 4 selections per attempt, one initial selection and at most 3
\* re-selections while the URL selected was already tried in this call;
\* after the third the duplicate is accepted and posted to.
C34_Terminates ==
    /\ Running ~> (call.pc \in {"returned", "raised"})
    /\ []( call.pc = "raised" =>
             call.raised \in {"503 Translation failed",
                              "503 No available translation endpoints"} )
    /\ []( call.pc = "returned" =>
             \/ call.source_lang = call.target_lang /\ call.result = call.text
             \/ /\ call.posts # <<>>
                /\ call.response.kind = "string"
                /\ call.result = call.response.data )
    /\ []( call.max_retries <= 5 /\ Len(call.posts) <= call.max_retries )
    /\ []( call.retry_count <= 3 )
    /\ []( call.pc = "reselect" =>
             call.url \in call.tried_urls /\ call.retry_count < 3 )
    /\ [][ SelectsAgain =>
             /\ call'.pc \in {"reselect", "post", "raised"}
             /\ call'.attempt = call.attempt
             /\ call'.retry_count =
                   IF call.pc = "select" THEN 0 ELSE call.retry_count + 1
             /\ (call'.pc = "post" /\ call'.url \in call.tried_urls) =>
                   call'.retry_count = 3 ]_vars

\* The call raised 503 after 5 POSTs to the one URL of the pool, the last
\* after 4 selections.
C34_Witness ==
    /\ call.pc = "raised"
    /\ call.raised = "503 Translation failed"
    /\ call.max_retries = 5
    /\ Len(call.posts) = 5
    /\ call.retry_count = 3

====
